---------------------------- MODULE Spec2Model ----------------------------
(***************************************************************************)
(* A model of dml-go: the DML parser (Config.Parse and its literal         *)
(* parsers), the value tree with dotted-key Get/Set, the style-aware       *)
(* serializer (Config.Dump) and the default-policy applier                 *)
(* (ApplyDefaults).                                                        *)
(*                                                                         *)
(* Go strings are TLA+ strings: TLC evaluates Len, \o and SubSeq on them,  *)
(* so every string operation of the source is computed character by        *)
(* character.  Go values of type any are records tagged with their         *)
(* dynamic type, a record of one field named after the type:              *)
(*   string          [string |-> "text"]                                   *)
(*   int             [int    |-> n]                                        *)
(*   float64         [float  |-> <<m, e>>]     (the number m * 10^-e)      *)
(*   bool            [bool   |-> TRUE]                                     *)
(*   []any           [list   |-> <<x1, ..., xn>>]                          *)
(*   map[string]any  [map    |-> [key |-> value]]                          *)
(***************************************************************************)
EXTENDS Integers, Sequences, FiniteSets, TLC

VARIABLES
    c,               \* the live *Config: [data, mapStyle, defaultKeys]
    globalMapStyle,  \* the package variable globalMapStyle
    err,             \* what the last operation on c returned
    out,             \* text returned by the last Dump of c ("" when stale)
    c2,              \* a second *Config (the fresh one a dump is parsed into)
    err2,            \* what the Parse into c2 returned
    file,            \* content of the configuration file on disk
    nOps,            \* operations applied to c since New()
    last,            \* the last operation: its name, input and c before it
    configCache,     \* the package variable configCache, for the one file
    cacheMutex,      \* the package variable cacheMutex: who holds it
    gs,              \* the goroutines: the call each is in and where in it
    heap             \* the map objects two Configs may share, by address

vars == <<c, globalMapStyle, err, out, c2, err2, file, nOps, last,
         configCache, cacheMutex, gs, heap>>

----------------------------------------------------------------------------
(* Characters *)

\* The printable ASCII characters 32..95 and 97..126, in byte order.
PrintableLow ==
    " !\"#$%&'()*+,-./0123456789:;<=>?@ABCDEFGHIJKLMNOPQRSTUVWXYZ[\\]^_"

PrintableHigh == "abcdefghijklmnopqrstuvwxyz{|}~"

Ch(s, i) == SubSeq(s, i, i)

\* The byte value of a one-character string.
Ascii ==
    [ch \in {Ch(PrintableLow, i) : i \in 1..Len(PrintableLow)}
            \cup {Ch(PrintableHigh, i) : i \in 1..Len(PrintableHigh)}
            \cup {"\n", "\t", "\r"} |->
        IF ch = "\n" THEN 10
        ELSE IF ch = "\t" THEN 9
        ELSE IF ch = "\r" THEN 13
        ELSE IF \E i \in 1..Len(PrintableLow) : Ch(PrintableLow, i) = ch
             THEN 31 + CHOOSE i \in 1..Len(PrintableLow) : Ch(PrintableLow, i) = ch
             ELSE 96 + CHOOSE i \in 1..Len(PrintableHigh) : Ch(PrintableHigh, i) = ch]

IsSpace(ch) == ch \in {" ", "\t", "\n", "\r"}

Digits == {Ch("0123456789", i) : i \in 1..10}

LowerCase == {Ch("abcdefghijklmnopqrstuvwxyz", i) : i \in 1..26}

UpperCase == {Ch("ABCDEFGHIJKLMNOPQRSTUVWXYZ", i) : i \in 1..26}

\* unicode.IsDigit and unicode.IsLetter on ASCII text.
IsDigit(ch) == ch \in Digits

IsLetter(ch) == ch \in LowerCase \cup UpperCase

\* Bind(v, F) is F(v): it names the value v once, as a local variable of the
\* source does.
Bind(v, F(_)) == F(v)

----------------------------------------------------------------------------
(* The functions of Go's strings package the source calls *)

HasPrefix(s, p) == Len(s) >= Len(p) /\ SubSeq(s, 1, Len(p)) = p

HasSuffix(s, p) == Len(s) >= Len(p) /\ SubSeq(s, Len(s) - Len(p) + 1, Len(s)) = p

TrimPrefix(s, p) == IF HasPrefix(s, p) THEN SubSeq(s, Len(p) + 1, Len(s)) ELSE s

TrimSuffix(s, p) == IF HasSuffix(s, p) THEN SubSeq(s, 1, Len(s) - Len(p)) ELSE s

MinOf(S) == CHOOSE i \in S : \A j \in S : i <= j

MaxOf(S) == CHOOSE i \in S : \A j \in S : i >= j

\* The first position >= i of s whose character is not in cutset (Len(s)+1 if none).
SkipLeft(s, i, cutset) ==
    LET rest == {j \in i..Len(s) : Ch(s, j) \notin cutset}
    IN  IF rest = {} THEN Len(s) + 1 ELSE MinOf(rest)

\* The last position <= j of s whose character is not in cutset (0 if none).
SkipRight(s, j, cutset) ==
    LET rest == {k \in 1..j : Ch(s, k) \notin cutset}
    IN  IF rest = {} THEN 0 ELSE MaxOf(rest)

\* strings.Trim(s, cutset): every leading and trailing character of cutset goes.
Trim(s, cutset) ==
    LET i == SkipLeft(s, 1, cutset)
    IN  IF i > Len(s) THEN "" ELSE SubSeq(s, i, SkipRight(s, Len(s), cutset))

TrimSpace(s) == Trim(s, {" ", "\t", "\n", "\r"})

\* The first position >= i at which sub occurs in s, 0 if none (1-based).
IndexFrom(s, sub, i) ==
    LET hits == {j \in i..(Len(s) - Len(sub) + 1) : SubSeq(s, j, j + Len(sub) - 1) = sub}
    IN  IF hits = {} THEN 0 ELSE MinOf(hits)

\* strings.Index(s, sub): 0-based, -1 when sub does not occur.
Index(s, sub) == IndexFrom(s, sub, 1) - 1

Contains(s, sub) == Index(s, sub) >= 0

RECURSIVE Split(_, _)
\* strings.Split(s, sep) for a one-character sep: empty pieces are kept.
Split(s, sep) ==
    LET i == IndexFrom(s, sep, 1)
    IN  IF i = 0 THEN <<s>>
        ELSE <<SubSeq(s, 1, i - 1)>> \o Split(SubSeq(s, i + 1, Len(s)), sep)

\* strings.SplitN(s, sep, 2): at most two pieces, cut at the first sep.
SplitN2(s, sep) ==
    LET i == IndexFrom(s, sep, 1)
    IN  IF i = 0 THEN <<s>>
        ELSE <<SubSeq(s, 1, i - 1), SubSeq(s, i + 1, Len(s))>>

RECURSIVE FieldsFrom(_, _)
FieldsFrom(s, i) ==
    LET a == SkipLeft(s, i, {" ", "\t", "\n", "\r"})
    IN  IF a > Len(s) THEN <<>>
        ELSE LET spaces == {j \in a..Len(s) : IsSpace(Ch(s, j))}
                 b      == IF spaces = {} THEN Len(s) + 1 ELSE MinOf(spaces)
             IN  <<SubSeq(s, a, b - 1)>> \o FieldsFrom(s, b)

\* strings.Fields(s): the maximal runs of non-space characters.
Fields(s) == FieldsFrom(s, 1)

\* The lower-case form of one character.
LowerOf(ch) ==
    IF ch \in UpperCase
    THEN Ch("abcdefghijklmnopqrstuvwxyz",
            CHOOSE i \in 1..26 : Ch("ABCDEFGHIJKLMNOPQRSTUVWXYZ", i) = ch)
    ELSE ch

RECURSIVE ToLower(_)
\* strings.ToLower(s)
ToLower(s) == IF s = "" THEN "" ELSE LowerOf(Ch(s, 1)) \o ToLower(SubSeq(s, 2, Len(s)))

RECURSIVE StrLess(_, _)
\* a < b as Go compares strings (byte-wise), the order of sort.Strings.
StrLess(a, b) ==
    IF b = "" THEN FALSE
    ELSE IF a = "" THEN TRUE
    ELSE IF Ch(a, 1) = Ch(b, 1) THEN StrLess(SubSeq(a, 2, Len(a)), SubSeq(b, 2, Len(b)))
    ELSE Ascii[Ch(a, 1)] < Ascii[Ch(b, 1)]

RECURSIVE SortStringsDescending(_)
\* A sort that leaves the keys in descending order.
SortStringsDescending(S) ==
    IF S = {} THEN <<>>
    ELSE LET m == CHOOSE k \in S : \A j \in S : j = k \/ StrLess(j, k)
         IN  <<m>> \o SortStringsDescending(S \ {m})

RECURSIVE SortStrings(_)
\* sort.Strings over a set of keys: the keys in ascending order.
SortStrings(S) ==
    IF S = {} THEN <<>>
    ELSE LET m == CHOOSE k \in S : \A j \in S : j = k \/ StrLess(k, j)
         IN  <<m>> \o SortStrings(S \ {m})

----------------------------------------------------------------------------
(* strconv and fmt: numbers to and from text *)

AllDigits(s) == \A i \in 1..Len(s) : IsDigit(Ch(s, i))

\* The value of one decimal digit.
DigitOf(ch) == (CHOOSE i \in 1..10 : Ch("0123456789", i) = ch) - 1

RECURSIVE DigitsVal(_)
\* The number a string of decimal digits denotes.
DigitsVal(s) ==
    IF s = "" THEN 0
    ELSE 10 * DigitsVal(SubSeq(s, 1, Len(s) - 1)) + DigitOf(Ch(s, Len(s)))

\* The longest digit string the model converts: beyond it TLC's integers overflow
\* before Go's int does, and the conversion is reported as failing.
MaxDigits == 9

Unsigned(s) == IF HasPrefix(s, "+") \/ HasPrefix(s, "-") THEN SubSeq(s, 2, Len(s)) ELSE s

\* strconv.Atoi(s): an optional sign, then one or more decimal digits.
AtoiOf(s, body) ==
    IF body # "" /\ AllDigits(body) /\ Len(body) <= MaxDigits
    THEN [ok |-> TRUE, v |-> IF HasPrefix(s, "-") THEN 0 - DigitsVal(body) ELSE DigitsVal(body)]
    ELSE [ok |-> FALSE, v |-> 0]

Atoi(s) == AtoiOf(s, Unsigned(s))

RECURSIVE Pow10(_)
Pow10(e) == IF e = 0 THEN 1 ELSE 10 * Pow10(e - 1)

RECURSIVE NormFloat(_, _)
\* m * 10^-e with no trailing zero left in the fraction.
NormFloat(m, e) == IF e > 0 /\ m % 10 = 0 THEN NormFloat(m \div 10, e - 1) ELSE <<m, e>>

\* The float an optional "-", the integer digits ip and the fraction digits fp
\* denote.
FloatOf(s, ip, fp) ==
    IF AllDigits(ip) /\ AllDigits(fp) /\ Len(ip) + Len(fp) >= 1
          /\ Len(ip) + Len(fp) <= MaxDigits
    THEN [ok |-> TRUE,
          v  |-> NormFloat(IF HasPrefix(s, "-") THEN 0 - DigitsVal(ip \o fp)
                           ELSE DigitsVal(ip \o fp), Len(fp))]
    ELSE [ok |-> FALSE, v |-> <<0, 0>>]

ParseFloatOf(s, body, dot) ==
    IF dot = 0 THEN FloatOf(s, body, "")
    ELSE FloatOf(s, SubSeq(body, 1, dot - 1), SubSeq(body, dot + 1, Len(body)))

\* strconv.ParseFloat(s, 64) on plain decimal text: an optional sign, digits with
\* an optional fraction, at least one digit.  The exponent, hexadecimal, inf and
\* nan spellings Go also accepts are outside the texts of this model.
ParseFloat(s) == ParseFloatOf(s, Unsigned(s), IndexFrom(Unsigned(s), ".", 1))

RECURSIVE FormatNat(_)
FormatNat(n) ==
    IF n < 10 THEN Ch("0123456789", n + 1)
    ELSE FormatNat(n \div 10) \o Ch("0123456789", (n % 10) + 1)

\* fmt's %d and %v of an int.
FormatInt(n) == IF n < 0 THEN "-" \o FormatNat(0 - n) ELSE FormatNat(n)

RECURSIVE PadZeros(_, _)
PadZeros(s, width) == IF Len(s) >= width THEN s ELSE PadZeros("0" \o s, width)

\* fmt's %v and %g of a float64 <<m, e>>: the shortest decimal that reads back as
\* the same number, which for a magnitude in [0.0001, 1000000) is plain decimal
\* notation; a whole number prints without a fraction.
FormatFloat(f) ==
    IF f[2] = 0 THEN FormatInt(f[1])
    ELSE IF f[1] < 0
    THEN "-" \o FormatNat((0 - f[1]) \div Pow10(f[2])) \o "."
         \o PadZeros(FormatNat((0 - f[1]) % Pow10(f[2])), f[2])
    ELSE FormatNat(f[1] \div Pow10(f[2])) \o "."
         \o PadZeros(FormatNat(f[1] % Pow10(f[2])), f[2])

----------------------------------------------------------------------------
(* Values of type any, and DMLError *)

VString(s) == [string |-> s]
VInt(n)    == [int |-> n]
VFloat(f)  == [float |-> f]
VBool(b)   == [bool |-> b]
VList(l)   == [list |-> l]
VMap(m)    == [map |-> m]
Nil        == [nil |-> 0]

\* The dynamic type of a value: what a type switch or reflect.TypeOf sees.
Kind(x) == CHOOSE k \in DOMAIN x : TRUE

IsMap(x) == Kind(x) = "map"

\* make(map[string]any)
EmptyMap == <<>>

\* m[k] = x
MapPut(m, k, x) == [j \in DOMAIN m \cup {k} |-> IF j = k THEN x ELSE m[j]]

NoErr == [type |-> "none", line |-> 0, col |-> 0]

\* &DMLError{Type, Line, Column}
DMLError(type, line, col) == [type |-> type, line |-> line, col |-> col]

\* New()
New == [data |-> EmptyMap, mapStyle |-> "Auto", defaultKeys |-> {}]

----------------------------------------------------------------------------
(* Config.Get, Config.Has, Config.Set *)

RECURSIVE GetIn(_, _, _)
GetIn(current, keys, i) ==
    IF i = Len(keys)
    THEN IF keys[i] \in DOMAIN current
         THEN [found |-> TRUE, val |-> current[keys[i]]]
         ELSE [found |-> FALSE, val |-> Nil]
    ELSE IF keys[i] \in DOMAIN current /\ IsMap(current[keys[i]])
         THEN GetIn(current[keys[i]].map, keys, i + 1)
         ELSE [found |-> FALSE, val |-> Nil]

\* c.Get(key) on the tree data
Get(data, key) == GetIn(data, Split(key, "."), 1)

Has(data, key) == Get(data, key).found

\* An assignment that stores the value under the first segment and creates no
\* intermediate map.
SetInFirst(current, keys, i, value) == MapPut(current, keys[i], value)

RECURSIVE SetIn(_, _, _, _)
SetIn(current, keys, i, value) ==
    IF i = Len(keys) THEN MapPut(current, keys[i], value)
    ELSE LET nested == IF keys[i] \in DOMAIN current /\ IsMap(current[keys[i]])
                       THEN current[keys[i]].map
                       ELSE EmptyMap
         IN  MapPut(current, keys[i], VMap(SetIn(nested, keys, i + 1, value)))

\* c.Set(key, value) on the tree data: a missing intermediate is created, and an
\* intermediate that holds a non-map value is replaced by a new map.
Set(data, key, value) == SetIn(data, Split(key, "."), 1, value)

----------------------------------------------------------------------------
(* The literal parsers.  Each returns [err, val]: val is meaningful when    *)
(* err = NoErr.                                                            *)

Ok(val) == [err |-> NoErr, val |-> val]

Fail(type, lineNum, col) == [err |-> DMLError(type, lineNum, col), val |-> Nil]

parseString(value, lineNum, col) ==
    IF ~HasPrefix(value, "\"") \/ ~HasSuffix(value, "\"")
    THEN Fail("Type", lineNum, col)
    ELSE Ok(VString(Trim(value, {"\""})))

parseInt(value, lineNum, col) ==
    Bind(Atoi(value),
         LAMBDA r : IF ~r.ok THEN Fail("Type", lineNum, col) ELSE Ok(VInt(r.v)))

parseFloat(value, lineNum, col) ==
    Bind(ParseFloat(value),
         LAMBDA r : IF ~r.ok THEN Fail("Type", lineNum, col) ELSE Ok(VFloat(r.v)))

parseBool(value, lineNum, col) ==
    IF value = "true" THEN Ok(VBool(TRUE))
    ELSE IF value = "false" THEN Ok(VBool(FALSE))
    ELSE Fail("Type", lineNum, col)

\* The value of a list item or map value that is a number, by the order of the
\* tests: strconv.Atoi first, then strconv.ParseFloat; Nil when neither reads it.
InferNumber(text) ==
    Bind(Atoi(text),
         LAMBDA i : IF i.ok THEN VInt(i.v)
                    ELSE Bind(ParseFloat(text),
                              LAMBDA f : IF f.ok THEN VFloat(f.v) ELSE Nil))

\* One element of a list literal, by the order of the tests in parseList's loop.
parseListItem(item) ==
    IF HasPrefix(item, "\"") /\ HasSuffix(item, "\"") THEN VString(Trim(item, {"\""}))
    ELSE Bind(InferNumber(item),
              LAMBDA n : IF n # Nil THEN n
                         ELSE IF item = "true" \/ item = "false" THEN VBool(item = "true")
                         ELSE VString(item))

RECURSIVE parseListItems(_, _)
\* parseList's loop over items[i..]: an item empty after trimming is skipped.
parseListItems(items, i) ==
    IF i > Len(items) THEN <<>>
    ELSE Bind(TrimSpace(items[i]),
              LAMBDA item : IF item = "" THEN <<>> ELSE <<parseListItem(item)>>)
         \o parseListItems(items, i + 1)

parseList(value, lineNum, col) ==
    IF ~HasPrefix(value, "[") \/ ~HasSuffix(value, "]")
    THEN Fail("Type", lineNum, col)
    ELSE Bind(TrimSpace(Trim(value, {"[", "]"})),
              LAMBDA content : IF content = "" THEN Ok(VList(<<>>))
                               ELSE Ok(VList(parseListItems(Split(content, ","), 1))))

\* smartSplit's scan, position by position.  inQuotes flips at every double
\* quote, so before position i it is the parity of the quotes in s[1..i-1]; depth
\* after position i is the brackets opened less those closed outside quotes in
\* s[1..i].
InQuotesAt(s, i) == Cardinality({j \in 1..(i - 1) : Ch(s, j) = "\""}) % 2 = 1

DepthAt(s, i) ==
    Cardinality({j \in 1..i : Ch(s, j) \in {"{", "["} /\ ~InQuotesAt(s, j)})
    - Cardinality({j \in 1..i : Ch(s, j) \in {"}", "]"} /\ ~InQuotesAt(s, j)})

\* The positions at which smartSplit cuts: a comma at depth 0 outside quotes.
SplitPoints(s) ==
    {i \in 1..Len(s) : Ch(s, i) = "," /\ ~InQuotesAt(s, i) /\ DepthAt(s, i) = 0}

RECURSIVE smartSplitFrom(_, _, _)
\* The pieces of s from position i on, cut at the split points; every piece
\* before a comma is kept, the piece after the last comma only if not empty.
smartSplitFrom(s, i, points) ==
    IF {j \in points : j >= i} = {}
    THEN (IF i <= Len(s) THEN <<SubSeq(s, i, Len(s))>> ELSE <<>>)
    ELSE Bind(MinOf({j \in points : j >= i}),
              LAMBDA cutAt : <<SubSeq(s, i, cutAt - 1)>> \o smartSplitFrom(s, cutAt + 1, points))

\* c.smartSplit(s, ',')
smartSplit(s) == smartSplitFrom(s, 1, SplitPoints(s))

RECURSIVE parseMap(_, _, _), parseMapPairs(_, _, _, _, _), parseMapPair(_, _, _, _, _, _),
          parseMapValue(_), parseMapValueOf(_)

parseMap(value, lineNum, col) ==
    IF ~HasPrefix(value, "{") \/ ~HasSuffix(value, "}")
    THEN Fail("Type", lineNum, col)
    ELSE Bind(TrimSpace(Trim(value, {"{", "}"})),
              LAMBDA content :
                  IF content = "" THEN Ok(VMap(EmptyMap))
                  ELSE parseMapPairs(smartSplit(content), 1, EmptyMap, lineNum, col))

\* parseMap's loop over pairs[i..], result being the map built so far.
parseMapPairs(pairs, i, result, lineNum, col) ==
    IF i > Len(pairs) THEN Ok(VMap(result))
    ELSE Bind(TrimSpace(pairs[i]),
              LAMBDA pair :
                  IF pair = "" THEN parseMapPairs(pairs, i + 1, result, lineNum, col)
                  ELSE parseMapPair(pairs, i, result, lineNum, col, SplitN2(pair, ":")))

\* The body of the loop for a non-empty pair, parts being SplitN(pair, ":", 2).
parseMapPair(pairs, i, result, lineNum, col, parts) ==
    IF Len(parts) # 2 THEN Fail("Type", lineNum, col)
    ELSE parseMapPairs(pairs, i + 1,
                       MapPut(result, Trim(TrimSpace(parts[1]), {"\""}),
                              parseMapValue(TrimSpace(parts[2]))),
                       lineNum, col)

\* The value a bracketed map value denotes: what the nested parser returns, or
\* the raw text as a string when the nested parser fails.
NestedOr(r, val) == IF r.err = NoErr THEN r.val ELSE VString(val)

\* c.parseMapValue(val), val as trimmed on entry.
parseMapValueOf(val) ==
    IF HasPrefix(val, "\"") /\ HasSuffix(val, "\"") THEN VString(Trim(val, {"\""}))
    ELSE IF val = "true" THEN VBool(TRUE)
    ELSE IF val = "false" THEN VBool(FALSE)
    ELSE Bind(InferNumber(val),
              LAMBDA n :
                  IF n # Nil THEN n
                  ELSE IF HasPrefix(val, "{") /\ HasSuffix(val, "}")
                  THEN NestedOr(parseMap(val, 0, 0), val)
                  ELSE IF HasPrefix(val, "[") /\ HasSuffix(val, "]")
                  THEN NestedOr(parseList(val, 0, 0), val)
                  ELSE VString(val))

parseMapValue(val0) == parseMapValueOf(TrimSpace(val0))

isValidIdentifier(name) ==
    /\ Len(name) # 0
    /\ (IsLetter(Ch(name, 1)) \/ Ch(name, 1) = "_")
    /\ \A i \in 2..Len(name) :
          IsLetter(Ch(name, i)) \/ IsDigit(Ch(name, i)) \/ Ch(name, i) \in {"_", "."}

parseValue(varType, value, lineNum, col) ==
    IF varType = "string" THEN parseString(value, lineNum, col)
    ELSE IF varType \in {"int", "number"} THEN parseInt(value, lineNum, col)
    ELSE IF varType = "float" THEN parseFloat(value, lineNum, col)
    ELSE IF varType \in {"bool", "boolean"} THEN parseBool(value, lineNum, col)
    ELSE IF varType = "list" THEN parseList(value, lineNum, col)
    ELSE IF varType = "map" THEN parseMap(value, lineNum, col)
    ELSE Fail("Validation", lineNum, col)

----------------------------------------------------------------------------
(* Statements.  An operation on a *Config returns [c, err]: the Config as  *)
(* the call leaves it and the error it returns.                            *)

\* The column parseLine hands to parseValue for the value text.
ValueColumn(originalLine, value) == 1

\* The column of the offending name: strings.Index(originalLine, varName) + 1,
\* or 1 when that is 0.
IdentifierColumn(originalLine, varName) ==
    IF Index(originalLine, varName) + 1 = 0 THEN 1 ELSE Index(originalLine, varName) + 1

\* The end of parseLine: the parsed value r is assigned, or its error returned.
Assign(cfg, varName, r) ==
    IF r.err # NoErr THEN [c |-> cfg, err |-> r.err]
    ELSE [c |-> [cfg EXCEPT !.data = Set(cfg.data, varName, r.val)], err |-> NoErr]

\* parseLine from the declaration's two words on.
parseDeclared(cfg, declParts, value, lineNum, originalLine) ==
    IF Len(declParts) # 2
    THEN [c |-> cfg, err |-> DMLError("Validation", lineNum, 1)]
    ELSE IF ~isValidIdentifier(declParts[2])
    THEN [c |-> cfg,
          err |-> DMLError("Validation", lineNum,
                           IdentifierColumn(originalLine, declParts[2]))]
    ELSE Assign(cfg, declParts[2],
                parseValue(declParts[1], value, lineNum, ValueColumn(originalLine, value)))

\* c.parseLine(line, lineNum, originalLine)
parseLine(cfg, line0, lineNum, originalLine) ==
    Bind(SplitN2(TrimSuffix(TrimSpace(line0), ";"), "="),
         LAMBDA parts :
             IF Len(parts) # 2 THEN [c |-> cfg, err |-> DMLError("Syntax", lineNum, 1)]
             ELSE parseDeclared(cfg, Fields(TrimSpace(parts[1])), TrimSpace(parts[2]),
                                lineNum, originalLine))

\* c.handleMapStyleDirective(value, lineNum), v being strings.ToLower(value).
\* A handleMapStyleDirective that falls back to Auto on a value it does not know.
mapStyleNamedOrAuto(cfg, v, lineNum) ==
    IF v = "json" THEN [c |-> [cfg EXCEPT !.mapStyle = "JSON"], err |-> NoErr]
    ELSE IF v = "flat" THEN [c |-> [cfg EXCEPT !.mapStyle = "Flat"], err |-> NoErr]
    ELSE IF v = "auto" THEN [c |-> [cfg EXCEPT !.mapStyle = "Auto"], err |-> NoErr]
    ELSE [c |-> [cfg EXCEPT !.mapStyle = "Auto"], err |-> DMLError("Validation", lineNum, 1)]

mapStyleNamed(cfg, v, lineNum) ==
    IF v = "json" THEN [c |-> [cfg EXCEPT !.mapStyle = "JSON"], err |-> NoErr]
    ELSE IF v = "flat" THEN [c |-> [cfg EXCEPT !.mapStyle = "Flat"], err |-> NoErr]
    ELSE IF v = "auto" THEN [c |-> [cfg EXCEPT !.mapStyle = "Auto"], err |-> NoErr]
    ELSE [c |-> cfg, err |-> DMLError("Validation", lineNum, 1)]

\* A handleMapStyleDirective that compares the value as written.
handleMapStyleDirectiveExact(cfg, value, lineNum) == mapStyleNamed(cfg, value, lineNum)

handleMapStyleDirective(cfg, value, lineNum) == mapStyleNamed(cfg, ToLower(value), lineNum)

\* c.parseDirective(line, lineNum)
parseDirective(cfg, line0, lineNum) ==
    Bind(Fields(TrimSpace(TrimPrefix(line0, "@"))),
         LAMBDA parts :
             IF Len(parts) < 2 THEN [c |-> cfg, err |-> DMLError("Validation", lineNum, 1)]
             ELSE IF parts[1] = "mapStyle"
             THEN handleMapStyleDirective(cfg, parts[2], lineNum)
             ELSE [c |-> cfg, err |-> DMLError("Validation", lineNum, 1)])

\* The state Parse carries from one physical line to the next: the Config as
\* committed so far, the error to return (NoErr while there is none), and the
\* multi-line assembler's isInMultiLine, multiLineBuffer and multiLineStart.
ParseState(cfg, e, isInMultiLine, multiLineBuffer, multiLineStart) ==
    [c |-> cfg, err |-> e, isInMultiLine |-> isInMultiLine,
     multiLineBuffer |-> multiLineBuffer, multiLineStart |-> multiLineStart]

\* The state after a statement handled by parseDirective or parseLine, which
\* returned r.
Committed(st, r, isInMultiLine, multiLineBuffer) ==
    ParseState(r.c, r.err, isInMultiLine, multiLineBuffer, st.multiLineStart)

\* The body of Parse's loop, line being strings.TrimSpace(originalLine).
ParseTrimmed(st, originalLine, line, lineNum) ==
    IF ~st.isInMultiLine /\ (line = "" \/ HasPrefix(line, "//"))
    THEN st
    ELSE IF ~st.isInMultiLine /\ HasPrefix(line, "@")
    THEN Committed(st, parseDirective(st.c, line, lineNum), FALSE, st.multiLineBuffer)
    ELSE IF /\ ~st.isInMultiLine
            /\ (Contains(line, "{") \/ Contains(line, "["))
            /\ ~HasSuffix(line, ";")
    THEN ParseState(st.c, NoErr, TRUE, st.multiLineBuffer \o line \o " ", lineNum)
    ELSE IF st.isInMultiLine
    THEN IF HasSuffix(line, ";")
         THEN Committed(st, parseLine(st.c, st.multiLineBuffer \o line \o " ",
                                      st.multiLineStart, st.multiLineBuffer \o line \o " "),
                        FALSE, "")
         ELSE [st EXCEPT !.multiLineBuffer = st.multiLineBuffer \o line \o " "]
    ELSE IF ~HasSuffix(line, ";")
    THEN [st EXCEPT !.err = DMLError("Syntax", lineNum, Len(line))]
    ELSE Committed(st, parseLine(st.c, line, lineNum, originalLine),
                   FALSE, st.multiLineBuffer)

\* One iteration of Parse's loop: physical line number lineNum with text
\* originalLine, from state st.
ParseStep(st, originalLine, lineNum) ==
    ParseTrimmed(st, originalLine, TrimSpace(originalLine), lineNum)

RECURSIVE ParseToEnd(_, _, _)
\* A loop that goes on to the last line whatever a statement returned.
ParseToEnd(st, lines, i) ==
    IF i > Len(lines) THEN [c |-> st.c, err |-> st.err]
    ELSE ParseToEnd(ParseStep(st, lines[i], i), lines, i + 1)

RECURSIVE ParseFrom(_, _, _)
\* The loop of Parse from physical line i on (1-based, so i is the line's number),
\* and the check for an unclosed multi-line statement after it.
ParseFrom(st, lines, i) ==
    IF st.err # NoErr THEN [c |-> st.c, err |-> st.err]
    ELSE IF i > Len(lines)
    THEN [c |-> st.c,
          err |-> IF st.isInMultiLine THEN DMLError("Syntax", st.multiLineStart, 1)
                  ELSE NoErr]
    ELSE ParseFrom(ParseStep(st, lines[i], i), lines, i + 1)

\* c.Parse(content)
Parse(cfg, content) ==
    ParseFrom(ParseState(cfg, NoErr, FALSE, "", 0), Split(content, "\n"), 1)

----------------------------------------------------------------------------
(* Config.Dump *)

\* c.getEffectiveMapStyle()
getEffectiveMapStyle(cfg, global) == IF cfg.mapStyle # "Auto" THEN cfg.mapStyle ELSE global

\* c.sortedKeys(m)
sortedKeys(m) == SortStrings(DOMAIN m)

\* c.hasNestedStructures(m)
hasNestedStructures(m) == \E k \in DOMAIN m : Kind(m[k]) \in {"map", "list"}

RECURSIVE FmtV(_), FmtVList(_, _), FmtVMap(_, _, _)
\* fmt's %v of a value of type any.
FmtV(x) ==
    IF Kind(x) = "string" THEN x.string
    ELSE IF Kind(x) = "int" THEN FormatInt(x.int)
    ELSE IF Kind(x) = "float" THEN FormatFloat(x.float)
    ELSE IF Kind(x) = "bool" THEN (IF x.bool THEN "true" ELSE "false")
    ELSE IF Kind(x) = "list" THEN "[" \o FmtVList(x.list, 1) \o "]"
    ELSE IF Kind(x) = "map" THEN "map[" \o FmtVMap(x.map, sortedKeys(x.map), 1) \o "]"
    ELSE "<nil>"

FmtVList(l, i) ==
    IF i > Len(l) THEN ""
    ELSE (IF i > 1 THEN " " ELSE "") \o FmtV(l[i]) \o FmtVList(l, i + 1)

FmtVMap(m, keys, i) ==
    IF i > Len(keys) THEN ""
    ELSE (IF i > 1 THEN " " ELSE "") \o keys[i] \o ":" \o FmtV(m[keys[i]])
         \o FmtVMap(m, keys, i + 1)

RECURSIVE dumpInlineValue(_), dumpInlineMap(_, _, _), dumpInlineList(_, _)
\* c.dumpInlineValue(builder, value): the text it appends.
dumpInlineValue(value) ==
    IF Kind(value) = "string" THEN "\"" \o value.string \o "\""
    ELSE IF Kind(value) = "int" THEN FormatInt(value.int)
    ELSE IF Kind(value) = "float" THEN FormatFloat(value.float)
    ELSE IF Kind(value) = "bool" THEN (IF value.bool THEN "true" ELSE "false")
    ELSE IF Kind(value) = "map"
         THEN "{ " \o dumpInlineMap(value.map, sortedKeys(value.map), 1) \o " }"
    ELSE IF Kind(value) = "list" THEN "[" \o dumpInlineList(value.list, 1) \o "]"
    ELSE FmtV(value)

dumpInlineMap(m, keys, i) ==
    IF i > Len(keys) THEN ""
    ELSE (IF i > 1 THEN ", " ELSE "") \o "\"" \o keys[i] \o "\": "
         \o dumpInlineValue(m[keys[i]]) \o dumpInlineMap(m, keys, i + 1)

dumpInlineList(l, i) ==
    IF i > Len(l) THEN ""
    ELSE (IF i > 1 THEN ", " ELSE "") \o dumpInlineValue(l[i]) \o dumpInlineList(l, i + 1)

RECURSIVE dumpArrayItems(_, _)
dumpArrayItems(arr, i) ==
    IF i > Len(arr) THEN ""
    ELSE (IF i > 1 THEN ", " ELSE "")
         \o (IF Kind(arr[i]) = "string" THEN "\"" \o arr[i].string \o "\"" ELSE FmtV(arr[i]))
         \o dumpArrayItems(arr, i + 1)

\* c.dumpArray(builder, key, arr)
dumpArray(key, arr) == "list " \o key \o " = [" \o dumpArrayItems(arr, 1) \o "];\n\n"

\* c.dumpScalar(builder, key, value, style)
dumpScalar(key, value) ==
    IF Kind(value) = "string" THEN "string " \o key \o " = \"" \o value.string \o "\";\n"
    ELSE IF Kind(value) \in {"float", "int"} THEN "number " \o key \o " = " \o FmtV(value) \o ";\n"
    ELSE IF Kind(value) = "bool" THEN "boolean " \o key \o " = " \o FmtV(value) \o ";\n"
    ELSE "string " \o key \o " = \"" \o FmtV(value) \o "\";\n"

RECURSIVE dumpBlockEntries(_, _, _)
\* The entries of a map block, one per line, a comma after all but the last.
dumpBlockEntries(m, keys, i) ==
    IF i > Len(keys) THEN ""
    ELSE "  \"" \o keys[i] \o "\": " \o dumpInlineValue(m[keys[i]])
         \o (IF i < Len(keys) THEN "," ELSE "") \o "\n"
         \o dumpBlockEntries(m, keys, i + 1)

\* The block form of a map: map <key> = { ... };
dumpBlock(key, m) ==
    "map " \o key \o " = {\n" \o dumpBlockEntries(m, sortedKeys(m), 1) \o "};\n\n"

\* A dumpMap that applies the Auto heuristic under Flat as well.
UsesBlockUnlessSmall(m, style) ==
    \/ style = "JSON"
    \/ Cardinality(DOMAIN m) > 3
    \/ hasNestedStructures(m)

\* A dumpMap whose heuristic looks at nested values only, not at the size.
UsesBlockIfNested(m, style) == style = "JSON" \/ (style # "Flat" /\ hasNestedStructures(m))

\* Whether dumpMap writes the map m as a block under style (otherwise it recurses
\* into dumpData and the map is flattened).
UsesBlock(m, style) ==
    \/ style = "JSON"
    \/ (style # "Flat" /\ (Cardinality(DOMAIN m) > 3 \/ hasNestedStructures(m)))

RECURSIVE dumpData(_, _, _), dumpDataKeys(_, _, _, _, _), dumpValue(_, _, _), dumpMap(_, _, _)

\* c.dumpData(builder, data, prefix, style)
dumpData(data, prefix, style) == dumpDataKeys(data, SortStrings(DOMAIN data), 1, prefix, style)

dumpDataKeys(data, keys, i, prefix, style) ==
    IF i > Len(keys) THEN ""
    ELSE LET key     == keys[i]
             fullKey == IF prefix # "" THEN prefix \o "." \o key ELSE key
         IN  dumpValue(fullKey, data[key], style)
             \o dumpDataKeys(data, keys, i + 1, prefix, style)

\* c.dumpValue(builder, key, value, style)
dumpValue(key, value, style) ==
    IF Kind(value) = "map" THEN dumpMap(key, value.map, style)
    ELSE IF Kind(value) = "list" THEN dumpArray(key, value.list)
    ELSE dumpScalar(key, value)

\* c.dumpMap(builder, key, m, style)
dumpMap(key, m, style) ==
    IF UsesBlock(m, style) THEN dumpBlock(key, m) ELSE dumpData(m, key, style)

\* The header Dump writes before the declarations.
DumpHeader(style) ==
    IF style = "JSON" THEN "@mapStyle json\n\n"
    ELSE IF style = "Flat" THEN "@mapStyle flat\n\n"
    ELSE ""

\* c.Dump()
Dump(cfg, global) ==
    LET style == getEffectiveMapStyle(cfg, global)
    IN  DumpHeader(style) \o dumpData(cfg.data, "", style)

----------------------------------------------------------------------------
(* Declarations handed to Parse *)

\* A declaration written on one physical line: <pad><type> <name> = <literal>;
Declaration(pad, type, name, literal) ==
    pad \o type \o " " \o name \o " = " \o literal \o ";"

\* The 1-based column at which the name of such a declaration begins.
NameColumn(pad, type) == Len(pad) + Len(type) + 2

\* The 1-based column at which its value text begins.
LiteralColumn(pad, type, name) == Len(pad) + Len(type) + Len(name) + 5

\* Well-typed declarations of the grammar, each literal with the value it denotes.
ValidDecls ==
    { [type |-> "string",  literal |-> "\"John Doe\"", value |-> VString("John Doe")],
      [type |-> "string",  literal |-> "\"\"",         value |-> VString("")],
      [type |-> "int",     literal |-> "25",           value |-> VInt(25)],
      [type |-> "int",     literal |-> "-7",           value |-> VInt(-7)],
      [type |-> "number",  literal |-> "8080",         value |-> VInt(8080)],
      [type |-> "float",   literal |-> "19.99",        value |-> VFloat(<<1999, 2>>)],
      [type |-> "float",   literal |-> "0.5",          value |-> VFloat(<<5, 1>>)],
      [type |-> "bool",    literal |-> "true",         value |-> VBool(TRUE)],
      [type |-> "boolean", literal |-> "false",        value |-> VBool(FALSE)],
      [type |-> "list",    literal |-> "[]",           value |-> VList(<<>>)],
      [type |-> "list",    literal |-> "[1, 2, 3]",
       value |-> VList(<<VInt(1), VInt(2), VInt(3)>>)],
      [type |-> "list",    literal |-> "[\"go\", true, 2.5]",
       value |-> VList(<<VString("go"), VBool(TRUE), VFloat(<<25, 1>>)>>)],
      [type |-> "list",    literal |-> "[\"a,b\", \"c\"]",
       value |-> VList(<<VString("a,b"), VString("c")>>)],
      [type |-> "map",     literal |-> "{}",           value |-> VMap(EmptyMap)],
      [type |-> "map",     literal |-> "{\"host\": \"db\", \"port\": 5432}",
       value |-> VMap([host |-> VString("db"), port |-> VInt(5432)])],
      [type |-> "map",
       literal |-> "{\"nested\": {\"port\": 5432}, \"host\": \"db\"}",
       value |-> VMap([host |-> VString("db"), nested |-> VMap([port |-> VInt(5432)])])],
      [type |-> "map",
       literal |-> "{\"host\": \"db\", \"nested\": {\"port\": 5432}, \"on\": true}",
       value |-> VMap([host |-> VString("db"), nested |-> VMap([port |-> VInt(5432)]),
                       on |-> VBool(TRUE)])],
      [type |-> "map",
       literal |-> "{\"host\": \"db\", \"nested\": {\"port\": 5432}}",
       value |-> VMap([host |-> VString("db"), nested |-> VMap([port |-> VInt(5432)])])] }

\* Declarations whose value text is no literal of the declared type.
IllTypedDecls ==
    { [type |-> "string",  literal |-> "invalid"],
      [type |-> "string",  literal |-> "\"open"],
      [type |-> "int",     literal |-> "abc"],
      [type |-> "int",     literal |-> "\"25\""],
      [type |-> "float",   literal |-> "1.2.3"],
      [type |-> "bool",    literal |-> "yes"],
      [type |-> "boolean", literal |-> "1"],
      [type |-> "list",    literal |-> "1, 2"],
      [type |-> "map",     literal |-> "[1]"] }

\* List and map declarations given as the pieces of the literal that are laid
\* out one per physical line.
MultiLineDecls ==
    { [type |-> "map",  pieces |-> <<"{", "\"host\": \"db\",", "\"port\": 5432", "}">>],
      [type |-> "map",  pieces |-> <<"{", "\"nested\": {\"port\": 5432}", "}">>],
      [type |-> "map",  pieces |-> <<"{\"host\": \"db\",", "\"on\": true}">>],
      [type |-> "list", pieces |-> <<"[", "1,", "2", "]">>],
      [type |-> "list", pieces |-> <<"[\"go\",", "true]">>] }

ValidNames == {"name", "_id", "v2", "server.host"}

InvalidNames == {"123name", "my-var", ".x"}

Pads == {"", "  "}

RECURSIVE Join(_, _, _)
\* The pieces from the i-th on, sep between consecutive ones.
Join(pieces, sep, i) ==
    IF i > Len(pieces) THEN ""
    ELSE pieces[i] \o (IF i < Len(pieces) THEN sep ELSE "") \o Join(pieces, sep, i + 1)

\* The declaration with its literal spread over physical lines, a piece per line,
\* the terminating ";" on the line of the last piece.
MultiLineText(pad, type, name, pieces) ==
    pad \o type \o " " \o name \o " = " \o Join(pieces, "\n" \o pad, 1) \o ";"

\* The same declaration on one line, its pieces joined by sep.
SingleLineText(pad, type, name, pieces, sep) ==
    Declaration(pad, type, name, Join(pieces, sep, 1))

----------------------------------------------------------------------------
(* Parsing declarations into a fresh Config *)

\* The goroutines of the program.
Goroutines == {1, 2}

\* var configCache = make(map[string]map[string]any): the entry of the one
\* configuration file, present or not.
NoCache == [present |-> FALSE, data |-> EmptyMap]

\* var cacheMutex sync.RWMutex, not held: the goroutine holding it for writing
\* (0 for none) and the goroutines holding it for reading.
Unlocked == [writer |-> 0, readers |-> {}]

\* A goroutine that is in no call: the call, the place in it, the keys listed
\* and the tree it has read from the file.
Idle == [op |-> "none", pc |-> "idle", keys |-> <<>>, fresh |-> [c |-> New, err |-> NoErr]]

CacheInit ==
    /\ configCache = NoCache
    /\ cacheMutex = Unlocked
    /\ gs = [g \in Goroutines |-> Idle]
    /\ heap = <<>>

NoInput == [pad |-> "", type |-> "", name |-> "", literal |-> "", value |-> Nil,
            pieces |-> <<>>]

InitDecl ==
    /\ c = New
    /\ globalMapStyle = "Auto"
    /\ err = NoErr
    /\ out = ""
    /\ c2 = New
    /\ err2 = NoErr
    /\ file = ""
    /\ nOps = 0
    /\ CacheInit
    /\ last = [op |-> "New", in |-> NoInput]

\* cfg := New()
NewConfig ==
    /\ last.op # "New"
    /\ c' = New
    /\ err' = NoErr
    /\ last' = [op |-> "New", in |-> NoInput]
    /\ UNCHANGED <<heap, globalMapStyle, out, c2, err2, file, nOps, configCache, cacheMutex, gs>>

\* err := cfg.Parse(text) on the fresh Config, text being one well-typed
\* single-line declaration.
ParseDeclaration ==
    \E d \in ValidDecls, name \in ValidNames \cup InvalidNames, pad \in Pads :
        /\ last.op = "New"
        /\ LET r == Parse(c, Declaration(pad, d.type, name, d.literal))
           IN  c' = r.c /\ err' = r.err
        /\ last' = [op |-> "ParseDeclaration",
                    in |-> [pad |-> pad, type |-> d.type, name |-> name,
                            literal |-> d.literal, value |-> d.value, pieces |-> <<>>]]
        /\ UNCHANGED <<heap, globalMapStyle, out, c2, err2, file, nOps, configCache, cacheMutex, gs>>

\* err := cfg.Parse(text), text being one single-line declaration whose value
\* text has the wrong form for the declared type.
ParseIllTyped ==
    \E d \in IllTypedDecls, name \in ValidNames, pad \in Pads :
        /\ last.op = "New"
        /\ LET r == Parse(c, Declaration(pad, d.type, name, d.literal))
           IN  c' = r.c /\ err' = r.err
        /\ last' = [op |-> "ParseIllTyped",
                    in |-> [pad |-> pad, type |-> d.type, name |-> name,
                            literal |-> d.literal, value |-> Nil, pieces |-> <<>>]]
        /\ UNCHANGED <<heap, globalMapStyle, out, c2, err2, file, nOps, configCache, cacheMutex, gs>>

\* err := cfg.Parse(text), text being one list or map declaration spread over
\* several physical lines.
ParseMultiLine ==
    \E d \in MultiLineDecls, name \in ValidNames \cup InvalidNames, pad \in Pads :
        /\ last.op = "New"
        /\ LET r == Parse(c, MultiLineText(pad, d.type, name, d.pieces))
           IN  c' = r.c /\ err' = r.err
        /\ last' = [op |-> "ParseMultiLine",
                    in |-> [pad |-> pad, type |-> d.type, name |-> name,
                            literal |-> Join(d.pieces, "", 1), value |-> Nil,
                            pieces |-> d.pieces]]
        /\ UNCHANGED <<heap, globalMapStyle, out, c2, err2, file, nOps, configCache, cacheMutex, gs>>

\* Type words with a literal of the type's form (wellTyped) and one that is
\* not; the last word is no type.
FaultyLiterals ==
    { [type |-> "string", literal |-> "\"x\"",       known |-> TRUE,  wellTyped |-> TRUE],
      [type |-> "string", literal |-> "\"a=b\"",     known |-> TRUE,  wellTyped |-> TRUE],
      [type |-> "string", literal |-> "invalid",     known |-> TRUE,  wellTyped |-> FALSE],
      [type |-> "int",    literal |-> "42",          known |-> TRUE,  wellTyped |-> TRUE],
      [type |-> "int",    literal |-> "abc",         known |-> TRUE,  wellTyped |-> FALSE],
      [type |-> "float",  literal |-> "1.5",         known |-> TRUE,  wellTyped |-> TRUE],
      [type |-> "float",  literal |-> "abc",         known |-> TRUE,  wellTyped |-> FALSE],
      [type |-> "bool",   literal |-> "true",        known |-> TRUE,  wellTyped |-> TRUE],
      [type |-> "bool",   literal |-> "yes",         known |-> TRUE,  wellTyped |-> FALSE],
      [type |-> "list",   literal |-> "[1, 2]",      known |-> TRUE,  wellTyped |-> TRUE],
      [type |-> "list",   literal |-> "1, 2",        known |-> TRUE,  wellTyped |-> FALSE],
      [type |-> "map",    literal |-> "{\"a\": 1}",  known |-> TRUE,  wellTyped |-> TRUE],
      [type |-> "map",    literal |-> "\"a\": 1",    known |-> TRUE,  wellTyped |-> FALSE],
      [type |-> "unknown_type", literal |-> "\"test\"", known |-> FALSE, wellTyped |-> TRUE] }

\* What stands between the type word and the "=": a name, a name that breaks
\* the identifier rule, two words, nothing.
FaultyNames ==
    { [name |-> "value", valid |-> TRUE], [name |-> "123invalid", valid |-> FALSE],
      [name |-> "first second", valid |-> FALSE], [name |-> "", valid |-> FALSE] }

\* The lines before the declaration.
Leads == {"", "// settings\n\n"}

\* The declaration with or without its "=" and its ";".
FaultyText(lead, type, name, eq, literal, semi) ==
    lead \o type \o (IF name = "" THEN "" ELSE " " \o name)
         \o (IF eq THEN " = " ELSE " ") \o literal \o (IF semi THEN ";" ELSE "") \o "\n"

\* err := cfg.Parse(text), text being one declaration that may lack its ";" or
\* its "=", have a malformed left-hand side, and carry a literal of another form.
ParseFaulty ==
    \E d \in FaultyLiterals, n \in FaultyNames, lead \in Leads, eq \in BOOLEAN,
       semi \in BOOLEAN :
        /\ last.op = "New"
        /\ LET r == Parse(c, FaultyText(lead, d.type, n.name, eq, d.literal, semi))
           IN  c' = r.c /\ err' = r.err
        /\ last' = [op |-> "ParseFaulty",
                    in |-> [lead |-> lead, type |-> d.type, name |-> n.name,
                            literal |-> d.literal, eq |-> eq, semi |-> semi,
                            lhs |-> n.valid /\ d.known, wellTyped |-> d.wellTyped]]
        /\ UNCHANGED <<heap, globalMapStyle, out, c2, err2, file, nOps, configCache, cacheMutex, gs>>

\* Map literals with an entry that has no ":" between key and value.
MalformedMaps ==
    { "{\"host\" \"db\"}", "{\"host\": \"db\", \"port\"}", "{\"port\" 1, \"host\": \"db\"}",
      "{host}" }

\* err := cfg.Parse(text), text being one map declaration with such an entry.
ParseMalformedMap ==
    \E literal \in MalformedMaps, name \in ValidNames, pad \in Pads :
        /\ last.op = "New"
        /\ LET r == Parse(c, Declaration(pad, "map", name, literal))
           IN  c' = r.c /\ err' = r.err
        /\ last' = [op |-> "ParseMalformedMap",
                    in |-> [pad |-> pad, type |-> "map", name |-> name,
                            literal |-> literal, value |-> Nil, pieces |-> <<>>]]
        /\ UNCHANGED <<heap, globalMapStyle, out, c2, err2, file, nOps, configCache, cacheMutex, gs>>

NextDecl ==
    \/ NewConfig \/ ParseDeclaration \/ ParseIllTyped \/ ParseMultiLine \/ ParseFaulty
    \/ ParseMalformedMap

SpecDecl == InitDecl /\ [][NextDecl]_vars

----------------------------------------------------------------------------
(* Building a Config through Set, dumping it, and parsing the dump *)

\* The most calls of Set on one Config.
MaxSets == 2

SetKeys == {"name", "db", "db.host", "db.pool.size"}

\* Values a caller hands to Set: each is expressible as a literal of the grammar.
SetValues ==
    { VString("db"), VInt(8080), VFloat(<<1999, 2>>), VBool(TRUE),
      VList(<<VInt(1), VString("a")>>),
      VList(<<VString("a,b")>>),
      VMap([host |-> VString("h"), port |-> VInt(1)]),
      VMap([host |-> VString("h"), port |-> VInt(1), user |-> VString("u")]),
      VMap([host |-> VString("h"), port |-> VInt(1), user |-> VString("u"),
            tls |-> VBool(TRUE)]),
      VMap([nested |-> VMap([port |-> VInt(5432)])]) }

MapStyles == {"Auto", "JSON", "Flat"}

Init ==
    /\ c = New
    /\ globalMapStyle = "Auto"
    /\ err = NoErr
    /\ out = ""
    /\ c2 = New
    /\ err2 = NoErr
    /\ file = ""
    /\ nOps = 0
    /\ CacheInit
    /\ last = [op |-> "New", sets |-> <<>>]

\* c.Set(key, value)
SetValue ==
    \E key \in SetKeys, value \in SetValues :
        /\ nOps < MaxSets
        /\ c' = [c EXCEPT !.data = Set(c.data, key, value)]
        /\ nOps' = nOps + 1
        /\ out' = ""
        /\ c2' = New
        /\ err2' = NoErr
        /\ last' = [op |-> "Set", sets |-> Append(last.sets, key)]
        /\ UNCHANGED <<heap, globalMapStyle, err, file, configCache, cacheMutex, gs>>

\* c.SetMapStyle(style)
SetConfigMapStyle ==
    \E style \in MapStyles :
        /\ c' = [c EXCEPT !.mapStyle = style]
        /\ out' = ""
        /\ c2' = New
        /\ err2' = NoErr
        /\ last' = [op |-> "SetMapStyle", sets |-> last.sets]
        /\ UNCHANGED <<heap, globalMapStyle, err, file, nOps, configCache, cacheMutex, gs>>

\* The package function SetMapStyle(style)
SetMapStyle ==
    \E style \in MapStyles :
        /\ globalMapStyle' = style
        /\ out' = ""
        /\ c2' = New
        /\ err2' = NoErr
        /\ last' = [op |-> "SetMapStyle", sets |-> last.sets]
        /\ UNCHANGED <<heap, c, err, file, nOps, configCache, cacheMutex, gs>>

\* out := c.Dump()
DumpConfig ==
    /\ last.op \notin {"Dump", "ParseDump"}
    /\ out' = Dump(c, globalMapStyle)
    /\ last' = [op |-> "Dump", sets |-> last.sets]
    /\ UNCHANGED <<heap, c, globalMapStyle, err, c2, err2, file, nOps, configCache, cacheMutex, gs>>

\* fresh := New(); err := fresh.Parse(out), out being the text just dumped.
ParseDump ==
    /\ last.op = "Dump"
    /\ LET r == Parse(New, out)
       IN  c2' = r.c /\ err2' = r.err
    /\ last' = [op |-> "ParseDump", sets |-> last.sets]
    /\ UNCHANGED <<heap, c, globalMapStyle, err, out, file, nOps, configCache, cacheMutex, gs>>

Next == SetValue \/ SetConfigMapStyle \/ SetMapStyle \/ DumpConfig \/ ParseDump

Spec == Init /\ [][Next]_vars

----------------------------------------------------------------------------
(* ApplyDefaults *)

\* The error fmt.Errorf("type mismatch for key ...") builds.
TypeMismatch == [type |-> "TypeMismatch", line |-> 0, col |-> 0]

\* A typesMatch that accepts every pair of values.
typesMatchAny(a, b) == TRUE

\* typesMatch(a, b): reflect.TypeOf(a) == reflect.TypeOf(b)
typesMatch(a, b) == Kind(a) = Kind(b)

\* An applyDefault that never assigns to a key that exists.
applyDefaultKeeping(cfg, key, value, policy, exists) ==
    IF exists THEN [c |-> cfg, err |-> NoErr]
    ELSE [c |-> [cfg EXCEPT !.data = Set(cfg.data, key, value),
                            !.defaultKeys = @ \cup {key}],
          err |-> NoErr]

\* c.applyDefault(key, value, policy) from exists := c.Has(key) on.
applyDefaultTo(cfg, key, value, policy, exists) ==
    IF policy.OnlyMissing /\ exists THEN [c |-> cfg, err |-> NoErr]
    ELSE IF ~policy.Override /\ exists THEN [c |-> cfg, err |-> NoErr]
    ELSE IF policy.StrictTypes /\ exists /\ ~typesMatch(Get(cfg.data, key).val, value)
    THEN [c |-> cfg, err |-> TypeMismatch]
    ELSE [c |-> [cfg EXCEPT !.data = Set(cfg.data, key, value),
                            !.defaultKeys = @ \cup {key}],
          err |-> NoErr]

\* c.applyDefault(key, value, policy)
applyDefault(cfg, key, value, policy) ==
    applyDefaultTo(cfg, key, value, policy, Has(cfg.data, key))

RECURSIVE ApplyLoop(_, _, _, _, _, _)
\* The loop of ApplyDefaults over the defaults in the order the range statement
\* happens to visit them, from the i-th on.  calls is the record of the calls of
\* applyDefault made so far: the key, the tree before and after, the error.
ApplyLoop(cfg, defaults, order, i, policy, calls) ==
    IF i > Len(order) THEN [c |-> cfg, err |-> NoErr, calls |-> calls]
    ELSE Bind(applyDefault(cfg, order[i], defaults[order[i]], policy),
              LAMBDA r :
                  IF r.err # NoErr
                  THEN [c |-> r.c, err |-> r.err,
                        calls |-> Append(calls, [key |-> order[i], before |-> cfg.data,
                                                 after |-> r.c.data, err |-> r.err])]
                  ELSE ApplyLoop(r.c, defaults, order, i + 1, policy,
                                 Append(calls, [key |-> order[i], before |-> cfg.data,
                                                after |-> r.c.data, err |-> r.err])))

\* c.SaveToFile(filepath): the content written.
SaveToFile(cfg, global) == Dump(cfg, global)

\* An ApplyDefaults that runs the loop whatever SkipIfPresent is.
ApplyLoadedAlways(content, global, defaults, order, policy, loaded) ==
    Bind(ApplyLoop([New EXCEPT !.data = loaded.c.data], defaults, order, 1, policy, <<>>),
         LAMBDA r :
             [file   |-> IF r.err # NoErr THEN content ELSE SaveToFile(r.c, global),
              err    |-> r.err,
              loaded |-> loaded.c.data,
              result |-> r.c.data,
              keys   |-> r.c.defaultKeys,
              calls  |-> r.calls,
              saved  |-> r.err = NoErr])

\* ApplyDefaults from the loaded tree on: [file, err, loaded, result, keys, calls,
\* saved], keys being the defaultKeys of the Config when ApplyDefaults returns.
ApplyLoaded(content, global, defaults, order, policy, loaded) ==
    IF loaded.err # NoErr
    THEN [file |-> content, err |-> loaded.err, loaded |-> EmptyMap,
          result |-> EmptyMap, keys |-> {}, calls |-> <<>>, saved |-> FALSE]
    ELSE IF policy.SkipIfPresent /\ DOMAIN loaded.c.data # {}
    THEN [file |-> content, err |-> NoErr, loaded |-> loaded.c.data,
          result |-> loaded.c.data, keys |-> {}, calls |-> <<>>, saved |-> FALSE]
    ELSE Bind(ApplyLoop([New EXCEPT !.data = loaded.c.data], defaults, order, 1, policy, <<>>),
              LAMBDA r :
                  [file   |-> IF r.err # NoErr THEN content ELSE SaveToFile(r.c, global),
                   err    |-> r.err,
                   loaded |-> loaded.c.data,
                   result |-> r.c.data,
                   keys   |-> r.c.defaultKeys,
                   calls  |-> r.calls,
                   saved  |-> r.err = NoErr])

\* Load(filepath), the file holding content: [c, err].
Load(content) == Parse(New, content)

\* ApplyDefaults(filepath, defaults, policy), the file holding content.
ApplyDefaultsOn(content, global, defaults, order, policy) ==
    ApplyLoaded(content, global, defaults, order, policy, Load(content))

\* The orders in which a range statement can visit the keys of a map.
Orders(keys) ==
    {o \in [1..Cardinality(keys) -> keys] : \A i, j \in DOMAIN o : o[i] = o[j] => i = j}

Policies ==
    [Override : BOOLEAN, StrictTypes : BOOLEAN, OnlyMissing : BOOLEAN,
     SkipIfPresent : BOOLEAN]

\* Contents of the configuration file before a pass.
Files ==
    { "",
      "number port = 8080;\n",
      "number port = 8080;\nstring host = \"h\";\n",
      "string server = \"x\";\n",
      "map server = {\"port\": 1};\n" }

\* Default sets handed to ApplyDefaults.
DefaultSets ==
    { [port |-> VString("9000")],
      [port |-> VInt(9000)],
      [port |-> VInt(9000), host |-> VString("localhost"), timeout |-> VInt(30)],
      [host |-> VString("localhost")],
      "server.port" :> VInt(8080),
      ("server.port" :> VString("8080")) @@ [port |-> VBool(TRUE)],
      ("server.port" :> VInt(8080)) @@ [server |-> VString("x")] }

NoPass == [policy |-> [Override |-> FALSE, StrictTypes |-> FALSE, OnlyMissing |-> FALSE,
                       SkipIfPresent |-> FALSE],
           defaults |-> <<>>, file |-> "", loaded |-> EmptyMap, result |-> EmptyMap,
           keys |-> {}, calls |-> <<>>, saved |-> FALSE]

InitDefaults ==
    /\ c = New
    /\ globalMapStyle = "Auto"
    /\ err = NoErr
    /\ out = ""
    /\ c2 = New
    /\ err2 = NoErr
    /\ file = ""
    /\ nOps = 0
    /\ CacheInit
    /\ last = [op |-> "WriteFile", pass |-> NoPass]

\* The user writes the configuration file.
WriteFile ==
    \E content \in Files :
        /\ file' = content
        /\ err' = NoErr
        /\ last' = [op |-> "WriteFile", pass |-> NoPass]
        /\ UNCHANGED <<heap, c, globalMapStyle, out, c2, err2, nOps, configCache, cacheMutex, gs>>

\* err := ApplyDefaults(filepath, defaults, policy) on the file as written.
ApplyDefaults ==
    \E defaults \in DefaultSets, policy \in Policies :
        \E order \in Orders(DOMAIN defaults) :
            /\ last.op = "WriteFile"
            /\ LET r == ApplyDefaultsOn(file, globalMapStyle, defaults, order, policy)
               IN  /\ file' = r.file
                   /\ err' = r.err
                   /\ last' = [op |-> "ApplyDefaults",
                               pass |-> [policy |-> policy, defaults |-> defaults,
                                         file |-> file, loaded |-> r.loaded,
                                         result |-> r.result, keys |-> r.keys,
                                         calls |-> r.calls,
                                         saved |-> r.saved]]
            /\ UNCHANGED <<heap, c, globalMapStyle, out, c2, err2, nOps, configCache, cacheMutex, gs>>

NextDefaults == WriteFile \/ ApplyDefaults

SpecDefaults == InitDefaults /\ [][NextDefaults]_vars

----------------------------------------------------------------------------
(* Parsing a text that carries directives, and dumping the Config *)

\* Directive lines Parse accepts, each with the style it names.
ValidDirectives ==
    { [line |-> "@mapStyle json", style |-> "JSON"],
      [line |-> "@mapStyle JSON", style |-> "JSON"],
      [line |-> "@mapStyle flat", style |-> "Flat"],
      [line |-> "@mapStyle Flat", style |-> "Flat"],
      [line |-> "@mapStyle auto", style |-> "Auto"],
      [line |-> "@mapStyle AUTO", style |-> "Auto"] }

\* Directive lines with an unknown name, an unknown value, or no value.
InvalidDirectives ==
    { [line |-> "@unknownDirective value", style |-> "none"],
      [line |-> "@mapStyle invalid",       style |-> "none"],
      [line |-> "@mapStyle",               style |-> "none"],
      [line |-> "@mapstyle json",          style |-> "none"] }

\* The directives of one text: one or two, in their order.
DirectiveSeqs ==
    LET D == ValidDirectives \cup InvalidDirectives
    IN  {<<d>> : d \in D} \cup {<<d1, d2>> : d1 \in D, d2 \in D}

RECURSIVE DirectiveLines(_, _)
\* The lines of the directives from the i-th on, each ended by a newline.
DirectiveLines(dirs, i) ==
    IF i > Len(dirs) THEN "" ELSE dirs[i].line \o "\n" \o DirectiveLines(dirs, i + 1)

\* A text: a comment line if lead is set, the directives, one map declaration.
DirectiveText(lead, dirs) ==
    (IF lead THEN "// style\n" ELSE "") \o DirectiveLines(dirs, 1)
        \o "map db = {\"host\": \"h\", \"port\": 1};\n"

NoDirectives == [lead |-> FALSE, dirs |-> <<>>, before |-> "Auto"]

InitDirective ==
    /\ c = New
    /\ globalMapStyle = "Auto"
    /\ err = NoErr
    /\ out = ""
    /\ c2 = New
    /\ err2 = NoErr
    /\ file = ""
    /\ nOps = 0
    /\ CacheInit
    /\ last = [op |-> "New", in |-> NoDirectives]

\* cfg := New()
FreshConfig ==
    /\ last.op # "New"
    /\ c' = New
    /\ err' = NoErr
    /\ out' = ""
    /\ last' = [op |-> "New", in |-> NoDirectives]
    /\ UNCHANGED <<heap, globalMapStyle, c2, err2, file, nOps, configCache, cacheMutex, gs>>

\* cfg.SetMapStyle(style) on the Config not yet parsed into
PresetMapStyle ==
    \E style \in MapStyles :
        /\ last.op = "New"
        /\ c' = [c EXCEPT !.mapStyle = style]
        /\ UNCHANGED <<heap, globalMapStyle, err, out, c2, err2, file, nOps, last, configCache, cacheMutex, gs>>

\* The package function SetMapStyle(style), called before the text is parsed
PresetGlobalMapStyle ==
    \E style \in MapStyles :
        /\ last.op = "New"
        /\ globalMapStyle' = style
        /\ UNCHANGED <<heap, c, err, out, c2, err2, file, nOps, last, configCache, cacheMutex, gs>>

\* err := cfg.Parse(text), text carrying one or two directives.
ParseDirectives ==
    \E lead \in BOOLEAN, dirs \in DirectiveSeqs :
        /\ last.op = "New"
        /\ LET r == Parse(c, DirectiveText(lead, dirs))
           IN  c' = r.c /\ err' = r.err
        /\ last' = [op |-> "ParseDirectives",
                    in |-> [lead |-> lead, dirs |-> dirs, before |-> c.mapStyle]]
        /\ UNCHANGED <<heap, globalMapStyle, out, c2, err2, file, nOps, configCache, cacheMutex, gs>>

\* out := cfg.Dump() after the Parse
DumpParsed ==
    /\ last.op = "ParseDirectives"
    /\ out' = Dump(c, globalMapStyle)
    /\ last' = [last EXCEPT !.op = "DumpParsed"]
    /\ UNCHANGED <<heap, c, globalMapStyle, err, c2, err2, file, nOps, configCache, cacheMutex, gs>>

NextDirective ==
    FreshConfig \/ PresetMapStyle \/ PresetGlobalMapStyle \/ ParseDirectives \/ DumpParsed

SpecDirective == InitDirective /\ [][NextDirective]_vars

----------------------------------------------------------------------------
(* The cache and ReloadKeys, one call at a time *)

\* A CopyKeys that takes the whole fresh tree.
CopyAll(target, fresh, keys, i) == fresh

RECURSIVE CopyKeys(_, _, _, _)
\* for _, key := range keys { if val, exists := fresh[key]; exists { target[key] = val } }
\* from the i-th key on.
CopyKeys(target, fresh, keys, i) ==
    IF i > Len(keys) THEN target
    ELSE IF keys[i] \in DOMAIN fresh
    THEN CopyKeys(MapPut(target, keys[i], fresh[keys[i]]), fresh, keys, i + 1)
    ELSE CopyKeys(target, fresh, keys, i + 1)

\* The tree configCache[filepath] holds after the nil test of ReloadKeys.
CachedTree(cache) == IF cache.present THEN cache.data ELSE EmptyMap

\* The package function ReloadKeys(filepath, keys...) from the loaded tree on:
\* [cache, err].
ReloadKeysLoaded(cache, keys, fresh) ==
    IF fresh.err # NoErr THEN [cache |-> cache, err |-> fresh.err]
    ELSE [cache |-> [present |-> TRUE,
                     data |-> CopyKeys(CachedTree(cache), fresh.c.data, keys, 1)],
          err |-> NoErr]

\* The package function ReloadKeys(filepath, keys...), the file holding content.
ReloadKeys(cache, content, keys) == ReloadKeysLoaded(cache, keys, Load(content))

\* c.ReloadKeys(filepath, keys...) from the parsed fresh Config on: [c, err].
ConfigReloadKeysParsed(cfg, keys, fresh) ==
    IF fresh.err # NoErr THEN [c |-> cfg, err |-> fresh.err]
    ELSE [c |-> [cfg EXCEPT !.data = CopyKeys(cfg.data, fresh.c.data, keys, 1)],
          err |-> NoErr]

\* c.ReloadKeys(filepath, keys...), the file holding content.
ConfigReloadKeys(cfg, content, keys) == ConfigReloadKeysParsed(cfg, keys, Parse(New, content))

\* A Reload that deletes the entry before it reads the file, so that a failed
\* call leaves none.
ReloadDeleting(cache, fresh) ==
    IF fresh.err # NoErr THEN [cache |-> NoCache, err |-> fresh.err]
    ELSE [cache |-> [present |-> TRUE, data |-> fresh.c.data], err |-> NoErr]

\* Reload(filepath) from the loaded tree on: [cache, err].
ReloadLoaded(cache, fresh) ==
    IF fresh.err # NoErr THEN [cache |-> cache, err |-> fresh.err]
    ELSE [cache |-> [present |-> TRUE, data |-> fresh.c.data], err |-> NoErr]

\* Reload(filepath), the file holding content.
Reload(cache, content) == ReloadLoaded(cache, Load(content))

\* A Cache that reads the file whether or not it holds an entry.
CacheReparsing(cache, content) == Reload(cache, content)

\* Cache(filepath), the file holding content: [cache, err].
Cache(cache, content) ==
    IF cache.present THEN [cache |-> cache, err |-> NoErr] ELSE Reload(cache, content)

\* The most calls on the cache and the Config in one behaviour.
MaxCalls == 3

\* Contents of the configuration file.
ReloadFiles ==
    { "map server = {\"host\": \"localhost\", \"port\": 8080};\nstring app = \"v1\";\n",
      "map server = {\"host\": \"prod\", \"port\": 9090};\nstring app = \"v2\";\n",
      "string app = \"v3\";\nnumber port = 1;\n",
      "string app = \"v4\"\n" }

\* The keys a caller lists.
KeyLists ==
    { <<>>, <<"server">>, <<"app", "server">>, <<"missing">>,
      <<"port", "missing", "port">>, <<"server.port">> }

NoCall == [op |-> "New", keys |-> <<>>, c |-> EmptyMap, cache |-> NoCache]

\* The record of a call: its name, the keys listed, the Config's tree and the
\* cache as they were before it.
Call(op, keys) == [op |-> op, keys |-> keys, c |-> c.data, cache |-> configCache]

InitReload ==
    /\ c = New
    /\ globalMapStyle = "Auto"
    /\ err = NoErr
    /\ out = ""
    /\ c2 = New
    /\ err2 = NoErr
    /\ file = ""
    /\ nOps = 0
    /\ CacheInit
    /\ last = NoCall

\* os.WriteFile(path, content, 0o644)
WriteConfigFile ==
    \E content \in ReloadFiles :
        /\ content # file
        /\ file' = content
        /\ last' = Call("WriteFile", <<>>)
        /\ UNCHANGED <<heap, c, globalMapStyle, err, out, c2, err2, nOps, configCache, cacheMutex, gs>>

\* cfg, err := NewConfig(path)
OpenConfig ==
    /\ nOps < MaxCalls
    /\ LET r == Parse(New, file)
       IN  /\ c' = IF r.err = NoErr THEN r.c ELSE c
           /\ err' = r.err
    /\ nOps' = nOps + 1
    /\ last' = Call("NewConfig", <<>>)
    /\ UNCHANGED <<heap, globalMapStyle, out, c2, err2, file, configCache, cacheMutex, gs>>

\* data, err := Cache(path)
CacheFile ==
    /\ nOps < MaxCalls
    /\ LET r == Cache(configCache, file)
       IN  configCache' = r.cache /\ err' = r.err
    /\ nOps' = nOps + 1
    /\ last' = Call("Cache", <<>>)
    /\ UNCHANGED <<heap, c, globalMapStyle, out, c2, err2, file, cacheMutex, gs>>

\* data, err := Reload(path)
ReloadFile ==
    /\ nOps < MaxCalls
    /\ LET r == Reload(configCache, file)
       IN  configCache' = r.cache /\ err' = r.err
    /\ nOps' = nOps + 1
    /\ last' = Call("Reload", <<>>)
    /\ UNCHANGED <<heap, c, globalMapStyle, out, c2, err2, file, cacheMutex, gs>>

\* ClearCache()
ClearCache ==
    /\ nOps < MaxCalls
    /\ configCache' = NoCache
    /\ err' = NoErr
    /\ nOps' = nOps + 1
    /\ last' = Call("ClearCache", <<>>)
    /\ UNCHANGED <<heap, c, globalMapStyle, out, c2, err2, file, cacheMutex, gs>>

\* data, err := ReloadKeys(path, keys...)
ReloadKeysCached ==
    \E keys \in KeyLists :
        /\ nOps < MaxCalls
        /\ LET r == ReloadKeys(configCache, file, keys)
           IN  configCache' = r.cache /\ err' = r.err
        /\ nOps' = nOps + 1
        /\ last' = Call("ReloadKeys", keys)
        /\ UNCHANGED <<heap, c, globalMapStyle, out, c2, err2, file, cacheMutex, gs>>

\* err := cfg.ReloadKeys(path, keys...)
ReloadKeysConfig ==
    \E keys \in KeyLists :
        /\ nOps < MaxCalls
        /\ LET r == ConfigReloadKeys(c, file, keys)
           IN  c' = r.c /\ err' = r.err
        /\ nOps' = nOps + 1
        /\ last' = Call("Config.ReloadKeys", keys)
        /\ UNCHANGED <<heap, globalMapStyle, out, c2, err2, file, configCache, cacheMutex, gs>>

NextReload ==
    \/ WriteConfigFile \/ OpenConfig \/ CacheFile \/ ReloadFile \/ ClearCache
    \/ ReloadKeysCached \/ ReloadKeysConfig

SpecReload == InitReload /\ [][NextReload]_vars

----------------------------------------------------------------------------
(* The cache and ReloadKeys, goroutines running their calls step by step *)

\* The calls a goroutine makes, each with the place it starts at.
GoCalls ==
    { [op |-> "Cache",             pc |-> "rlock"],
      [op |-> "Reload",            pc |-> "load"],
      [op |-> "ReloadKeys",        pc |-> "load"],
      [op |-> "ClearCache",        pc |-> "lock"],
      [op |-> "Config.ReloadKeys", pc |-> "load"] }

\* The keys the goroutines list.
GoKeyLists == { <<"server">>, <<"app", "server">> }

\* The contents the file takes while the goroutines run: the first and the
\* rewritten one.
GoFiles ==
    { "map server = {\"host\": \"localhost\", \"port\": 8080};\nstring app = \"v1\";\n",
      "map server = {\"host\": \"prod\", \"port\": 9090};\nstring app = \"v2\";\n" }

\* No goroutine has met the runtime's fatal error.
Running == \A g \in Goroutines : gs[g].pc # "fatal"

\* The state after main wrote the file and made cfg with NewConfig(path).
InitConcurrent ==
    /\ file = "map server = {\"host\": \"localhost\", \"port\": 8080};\nstring app = \"v1\";\n"
    /\ c = Parse(New, file).c
    /\ globalMapStyle = "Auto"
    /\ err = NoErr
    /\ out = ""
    /\ c2 = New
    /\ err2 = NoErr
    /\ nOps = 0
    /\ CacheInit
    /\ last = NoCall

\* go func() { ... }(): a goroutine enters one of the calls.
GoCall ==
    \E g \in Goroutines, call \in GoCalls, keys \in GoKeyLists :
        /\ Running
        /\ gs[g].pc = "idle"
        /\ gs' = [gs EXCEPT ![g] = [Idle EXCEPT !.op = call.op, !.pc = call.pc,
                                                !.keys = IF call.op \in {"ReloadKeys", "Config.ReloadKeys"}
                                                         THEN keys ELSE <<>>]]
        /\ UNCHANGED <<heap, c, globalMapStyle, err, out, c2, err2, file, nOps, last,
                       configCache, cacheMutex>>

\* Another process rewrites the file.
GoWriteFile ==
    \E content \in GoFiles :
        /\ Running
        /\ content # file
        /\ file' = content
        /\ UNCHANGED <<heap, c, globalMapStyle, err, out, c2, err2, nOps, last,
                       configCache, cacheMutex, gs>>

\* cacheMutex.RLock() of Cache
GoRLock ==
    \E g \in Goroutines :
        /\ Running
        /\ gs[g].pc = "rlock"
        /\ cacheMutex.writer = 0
        /\ cacheMutex' = [cacheMutex EXCEPT !.readers = @ \cup {g}]
        /\ gs' = [gs EXCEPT ![g].pc = "lookup"]
        /\ UNCHANGED <<heap, c, globalMapStyle, err, out, c2, err2, file, nOps, last, configCache>>

\* cached, exists := configCache[filepath] of Cache
GoLookup ==
    \E g \in Goroutines :
        /\ Running
        /\ gs[g].pc = "lookup"
        /\ gs' = [gs EXCEPT ![g].pc = IF configCache.present THEN "runlock-hit"
                                                             ELSE "runlock-miss"]
        /\ UNCHANGED <<heap, c, globalMapStyle, err, out, c2, err2, file, nOps, last,
                       configCache, cacheMutex>>

\* cacheMutex.RUnlock() of Cache, on either branch
GoRUnlock ==
    \E g \in Goroutines :
        /\ Running
        /\ gs[g].pc \in {"runlock-hit", "runlock-miss"}
        /\ cacheMutex' = [cacheMutex EXCEPT !.readers = @ \ {g}]
        /\ gs' = [gs EXCEPT ![g] = IF gs[g].pc = "runlock-hit" THEN Idle
                                   ELSE [gs[g] EXCEPT !.pc = "load"]]
        /\ UNCHANGED <<heap, c, globalMapStyle, err, out, c2, err2, file, nOps, last, configCache>>

\* Load(filepath), or os.ReadFile and fresh.Parse of Config.ReloadKeys; the
\* call returns the error if there is one.
GoLoad ==
    \E g \in Goroutines :
        /\ Running
        /\ gs[g].pc = "load"
        /\ LET r == Parse(New, file)
           IN  gs' = [gs EXCEPT ![g] =
                         IF r.err # NoErr THEN Idle
                         ELSE [gs[g] EXCEPT !.fresh = r,
                                            !.pc = IF gs[g].op = "Config.ReloadKeys"
                                                   THEN "copy" ELSE "lock"]]
        /\ UNCHANGED <<heap, c, globalMapStyle, err, out, c2, err2, file, nOps, last,
                       configCache, cacheMutex>>

\* cacheMutex.Lock()
GoLock ==
    \E g \in Goroutines :
        /\ Running
        /\ gs[g].pc = "lock"
        /\ cacheMutex = Unlocked
        /\ cacheMutex' = [cacheMutex EXCEPT !.writer = g]
        /\ gs' = [gs EXCEPT ![g].pc = "write"]
        /\ UNCHANGED <<heap, c, globalMapStyle, err, out, c2, err2, file, nOps, last, configCache>>

\* The write to configCache the call makes between Lock and Unlock:
\* configCache[filepath] = data in Cache and Reload, the loop over the keys in
\* ReloadKeys, configCache = make(...) in ClearCache.
GoWrite ==
    \E g \in Goroutines :
        /\ Running
        /\ gs[g].pc = "write"
        /\ configCache' =
               IF gs[g].op = "ClearCache" THEN NoCache
               ELSE IF gs[g].op = "ReloadKeys"
               THEN ReloadKeysLoaded(configCache, gs[g].keys, gs[g].fresh).cache
               ELSE ReloadLoaded(configCache, gs[g].fresh).cache
        /\ gs' = [gs EXCEPT ![g].pc = "unlock"]
        /\ UNCHANGED <<heap, c, globalMapStyle, err, out, c2, err2, file, nOps, last, cacheMutex>>

\* cacheMutex.Unlock(), and the call returns
GoUnlock ==
    \E g \in Goroutines :
        /\ Running
        /\ gs[g].pc = "unlock"
        /\ cacheMutex' = [cacheMutex EXCEPT !.writer = 0]
        /\ gs' = [gs EXCEPT ![g] = Idle]
        /\ UNCHANGED <<heap, c, globalMapStyle, err, out, c2, err2, file, nOps, last, configCache>>

\* The loop of Config.ReloadKeys, c.data[key] = val, made without the mutex.
\* With another goroutine in the same loop on the same Config the writes are
\* concurrent map writes: the loop completes, or the runtime ends the program
\* with a fatal error.
GoCopyConfig ==
    \E g \in Goroutines :
        /\ Running
        /\ gs[g].pc = "copy"
        /\ \/ /\ c' = ConfigReloadKeysParsed(c, gs[g].keys, gs[g].fresh).c
              /\ gs' = [gs EXCEPT ![g] = Idle]
           \/ /\ \E h \in Goroutines \ {g} : gs[h].pc = "copy"
              /\ c' = c
              /\ gs' = [gs EXCEPT ![g].pc = "fatal"]
        /\ UNCHANGED <<heap, globalMapStyle, err, out, c2, err2, file, nOps, last,
                       configCache, cacheMutex>>

NextConcurrent ==
    \/ GoCall \/ GoWriteFile \/ GoRLock \/ GoLookup \/ GoRUnlock \/ GoLoad
    \/ GoLock \/ GoWrite \/ GoUnlock \/ GoCopyConfig

SpecConcurrent == InitConcurrent /\ [][NextConcurrent]_vars

----------------------------------------------------------------------------
(* The typed accessors *)

\* The first position >= i of s that holds no decimal digit.
DigitsEnd(s, i) == SkipLeft(s, i, Digits)

\* The first position after an optional sign at position i of s.
SignEnd(s, i) == IF i <= Len(s) /\ Ch(s, i) \in {"+", "-"} THEN i + 1 ELSE i

\* fmt.Sscanf(v, "%d", &i): blanks are skipped, then an optional sign and the
\* longest run of digits are read and converted; i keeps 0 when nothing
\* converts.
ScanIntAt(v, i) == Atoi(SubSeq(v, i, DigitsEnd(v, SignEnd(v, i)) - 1)).v

ScanInt(v) == ScanIntAt(v, SkipLeft(v, 1, {" ", "\t"}))

\* The end of the number at position i of s for the verb %f: a sign, digits and
\* an optional point with its digits.
FloatEnd(s, j) ==
    IF j <= Len(s) /\ Ch(s, j) = "." THEN DigitsEnd(s, j + 1) ELSE j

\* fmt.Sscanf(v, "%f", &f): f keeps 0 when nothing converts.
ScanFloatAt(v, i) == ParseFloat(SubSeq(v, i, FloatEnd(v, DigitsEnd(v, SignEnd(v, i))) - 1)).v

ScanFloat(v) == ScanFloatAt(v, SkipLeft(v, 1, {" ", "\t"}))

\* int(v) of a float64: the fraction is dropped.
TruncFloat(f) ==
    IF f[1] < 0 THEN 0 - ((0 - f[1]) \div Pow10(f[2])) ELSE f[1] \div Pow10(f[2])

\* c.GetString(key), given what c.Get(key) returned
GetStringOf(r) ==
    IF r.found
    THEN IF Kind(r.val) = "string" THEN r.val.string ELSE FmtV(r.val)
    ELSE ""

GetString(data, key) == GetStringOf(Get(data, key))

GetIntOf(r) ==
    IF r.found /\ Kind(r.val) = "int" THEN r.val.int
    ELSE IF r.found /\ Kind(r.val) = "float" THEN TruncFloat(r.val.float)
    ELSE IF r.found /\ Kind(r.val) = "string" THEN ScanInt(r.val.string)
    ELSE 0

GetInt(data, key) == GetIntOf(Get(data, key))

GetFloatOf(r) ==
    IF r.found /\ Kind(r.val) = "float" THEN r.val.float
    ELSE IF r.found /\ Kind(r.val) = "int" THEN <<r.val.int, 0>>
    ELSE IF r.found /\ Kind(r.val) = "string" THEN ScanFloat(r.val.string)
    ELSE <<0, 0>>

GetFloat(data, key) == GetFloatOf(Get(data, key))

GetBoolOf(r) ==
    IF r.found /\ Kind(r.val) = "bool" THEN r.val.bool
    ELSE IF r.found /\ Kind(r.val) = "string" THEN r.val.string = "true"
    ELSE FALSE

GetBool(data, key) == GetBoolOf(Get(data, key))

GetListOf(r) == IF r.found /\ Kind(r.val) = "list" THEN r.val.list ELSE <<>>

GetList(data, key) == GetListOf(Get(data, key))

GetMapOf(r) == IF r.found /\ Kind(r.val) = "map" THEN r.val.map ELSE EmptyMap

GetMap(data, key) == GetMapOf(Get(data, key))

\* The trees the accessors are called on: one value of each kind, strings that
\* spell values of the other kinds, and numbers under names of other kinds.
AccessTrees ==
    { [name   |-> VString("app"), port |-> VInt(8080), ratio |-> VFloat(<<39, 1>>),
       debug  |-> VBool(TRUE), tags |-> VList(<<VString("a"), VInt(1)>>),
       server |-> VMap([host |-> VString("h"), port |-> VInt(0 - 7)])],
      [name   |-> VString("true"), port |-> VString("12"), ratio |-> VString(" 2.5x"),
       debug  |-> VString("false"), tags |-> VString("12abc"),
       server |-> VString("-3.75")],
      [name   |-> VInt(42), port |-> VFloat(<<0 - 39, 1>>), ratio |-> VInt(3),
       debug  |-> VString("x"), tags |-> VList(<<>>),
       server |-> VMap(EmptyMap)] }

\* The key paths asked for.
AccessKeys ==
    { "name", "port", "ratio", "debug", "tags", "server", "server.host",
      "server.port", "missing", "name.x" }

\* A Config whose tree is one of AccessTrees.
InitAccess ==
    /\ c \in {[New EXCEPT !.data = t] : t \in AccessTrees}
    /\ globalMapStyle = "Auto"
    /\ err = NoErr
    /\ out = ""
    /\ c2 = New
    /\ err2 = NoErr
    /\ file = ""
    /\ nOps = 0
    /\ CacheInit
    /\ last = [op |-> "New", key |-> "", ret |-> Nil]

CallGetString ==
    \E key \in AccessKeys :
        /\ last' = [op |-> "GetString", key |-> key, ret |-> GetString(c.data, key)]
        /\ UNCHANGED <<heap, c, globalMapStyle, err, out, c2, err2, file, nOps,
                       configCache, cacheMutex, gs>>

CallGetInt ==
    \E key \in AccessKeys :
        /\ last' = [op |-> "GetInt", key |-> key, ret |-> GetInt(c.data, key)]
        /\ UNCHANGED <<heap, c, globalMapStyle, err, out, c2, err2, file, nOps,
                       configCache, cacheMutex, gs>>

CallGetFloat ==
    \E key \in AccessKeys :
        /\ last' = [op |-> "GetFloat", key |-> key, ret |-> GetFloat(c.data, key)]
        /\ UNCHANGED <<heap, c, globalMapStyle, err, out, c2, err2, file, nOps,
                       configCache, cacheMutex, gs>>

CallGetBool ==
    \E key \in AccessKeys :
        /\ last' = [op |-> "GetBool", key |-> key, ret |-> GetBool(c.data, key)]
        /\ UNCHANGED <<heap, c, globalMapStyle, err, out, c2, err2, file, nOps,
                       configCache, cacheMutex, gs>>

CallGetList ==
    \E key \in AccessKeys :
        /\ last' = [op |-> "GetList", key |-> key, ret |-> GetList(c.data, key)]
        /\ UNCHANGED <<heap, c, globalMapStyle, err, out, c2, err2, file, nOps,
                       configCache, cacheMutex, gs>>

CallGetMap ==
    \E key \in AccessKeys :
        /\ last' = [op |-> "GetMap", key |-> key, ret |-> GetMap(c.data, key)]
        /\ UNCHANGED <<heap, c, globalMapStyle, err, out, c2, err2, file, nOps,
                       configCache, cacheMutex, gs>>

NextAccess ==
    \/ CallGetString \/ CallGetInt \/ CallGetFloat \/ CallGetBool
    \/ CallGetList \/ CallGetMap

SpecAccess == InitAccess /\ [][NextAccess]_vars

----------------------------------------------------------------------------
(* Parsing a text of several statements *)

\* The statements a text is made of: the text (its physical lines joined by
\* "\n"), the number of physical lines, and the class of error the statement
\* has ("none" for a statement that is well formed).
Statements ==
    { [text |-> "string a = \"x\";",     lines |-> 1, class |-> "none"],
      [text |-> "number b = 1;",         lines |-> 1, class |-> "none"],
      [text |-> "@mapStyle json",        lines |-> 1, class |-> "none"],
      [text |-> "list l = [\n1,\n2\n];", lines |-> 4, class |-> "none"],
      [text |-> "string a = invalid;",   lines |-> 1, class |-> "Type"],
      [text |-> "text t = \"x\";",       lines |-> 1, class |-> "Validation"],
      [text |-> "@mapStyle bogus",       lines |-> 1, class |-> "Validation"],
      [text |-> "number b = 2",          lines |-> 1, class |-> "Syntax"],
      [text |-> "list n = [\n1,\n2;",    lines |-> 3, class |-> "Type"] }

\* The most statements of a text.
MaxStatements == 3

StatementSeqs == UNION {[1..n -> Statements] : n \in 1..MaxStatements}

RECURSIVE StatementsText(_, _)
\* The text of the statements stmts[i..], one after the other.
StatementsText(stmts, i) ==
    IF i > Len(stmts) THEN ""
    ELSE stmts[i].text \o "\n" \o StatementsText(stmts, i + 1)

InitStatements ==
    /\ c = New
    /\ globalMapStyle = "Auto"
    /\ err = NoErr
    /\ out = ""
    /\ c2 = New
    /\ err2 = NoErr
    /\ file = ""
    /\ nOps = 0
    /\ CacheInit
    /\ last = [op |-> "New", stmts |-> <<>>]

\* cfg := New()
NewStatementsConfig ==
    /\ last.op # "New"
    /\ c' = New
    /\ err' = NoErr
    /\ last' = [op |-> "New", stmts |-> <<>>]
    /\ UNCHANGED <<heap, globalMapStyle, out, c2, err2, file, nOps, configCache, cacheMutex, gs>>

\* err := cfg.Parse(text), text being a sequence of statements.
ParseStatements ==
    \E stmts \in StatementSeqs :
        /\ last.op = "New"
        /\ LET r == Parse(c, StatementsText(stmts, 1))
           IN  c' = r.c /\ err' = r.err
        /\ last' = [op |-> "Parse", stmts |-> stmts]
        /\ UNCHANGED <<heap, globalMapStyle, out, c2, err2, file, nOps, configCache, cacheMutex, gs>>

NextStatements == NewStatementsConfig \/ ParseStatements

SpecStatements == InitStatements /\ [][NextStatements]_vars

----------------------------------------------------------------------------
(* Parse's loop, one physical line at a time *)

\* The physical lines a text is made of.
AssemblerLines ==
    { "list l = [", "map m = {", "1,", "\"k\": 1;", "\"j\": \"}\"", "2", "];", "};",
      "string a = \"x\";", "// note" }

\* The most physical lines of a text.
MaxLines == 4

\* The loop's variables before the first line.
LoopStart == [op |-> "Parse", isInMultiLine |-> FALSE, multiLineBuffer |-> "",
              multiLineStart |-> 0, ended |-> FALSE, statement |-> ""]

\* cfg := New(), and cfg.Parse(content) has entered its loop; file holds the
\* lines read so far and nOps is their number.
InitAssembler ==
    /\ c = New
    /\ globalMapStyle = "Auto"
    /\ err = NoErr
    /\ out = ""
    /\ c2 = New
    /\ err2 = NoErr
    /\ file = ""
    /\ nOps = 0
    /\ CacheInit
    /\ last = LoopStart

\* One iteration of the loop of Parse, on the next physical line.  ended tells
\* that the iteration closed a statement collected over several lines, and
\* statement is the text it handed to parseLine.
ReadLine ==
    \E line \in AssemblerLines :
        /\ last.op \in {"Parse", "Line"}
        /\ err = NoErr
        /\ nOps < MaxLines
        /\ LET st == ParseStep(ParseState(c, NoErr, last.isInMultiLine,
                                          last.multiLineBuffer, last.multiLineStart),
                               line, nOps + 1)
           IN  /\ c' = st.c
               /\ err' = st.err
               /\ last' = [op |-> "Line", isInMultiLine |-> st.isInMultiLine,
                           multiLineBuffer |-> st.multiLineBuffer,
                           multiLineStart |-> st.multiLineStart,
                           ended |-> last.isInMultiLine /\ ~st.isInMultiLine,
                           statement |-> IF last.isInMultiLine /\ ~st.isInMultiLine
                                         THEN last.multiLineBuffer \o TrimSpace(line) \o " "
                                         ELSE ""]
        /\ file' = file \o line \o "\n"
        /\ nOps' = nOps + 1
        /\ UNCHANGED <<heap, globalMapStyle, out, c2, err2, configCache, cacheMutex, gs>>

\* The end of the input: the check for an unclosed statement, and the return.
EndOfInput ==
    /\ last.op \in {"Parse", "Line"}
    /\ err = NoErr
    /\ err' = IF last.isInMultiLine THEN DMLError("Syntax", last.multiLineStart, 1)
              ELSE NoErr
    /\ last' = [last EXCEPT !.op = "Return", !.ended = FALSE, !.statement = ""]
    /\ UNCHANGED <<heap, c, globalMapStyle, out, c2, err2, file, nOps, configCache, cacheMutex, gs>>

NextAssembler == ReadLine \/ EndOfInput

SpecAssembler == InitAssembler /\ [][NextAssembler]_vars

----------------------------------------------------------------------------
(* Two Configs whose maps live at addresses: Set, Merge and Clone *)

\* In this section a Config's data is the address of its map object in heap, and
\* a nested map is held as [ref |-> address]: two Configs share a sub-tree when
\* they hold the same address.

RECURSIVE Deref(_, _)
\* The tree found at the address ref.
Deref(h, ref) ==
    [k \in DOMAIN h[ref] |->
        IF Kind(h[ref][k]) = "ref" THEN VMap(Deref(h, h[ref][k].ref)) ELSE h[ref][k]]

RECURSIVE StoreTree(_, _), StoreKeys(_, _, _, _, _)
\* The maps of the tree m are made as new objects: the heap after it and the
\* address of the top map.
StoreTree(h, m) == StoreKeys(h, m, SortStrings(DOMAIN m), 1, EmptyMap)

StoreKeys(h, m, keys, i, obj) ==
    IF i > Len(keys) THEN [heap |-> Append(h, obj), ref |-> Len(h) + 1]
    ELSE IF IsMap(m[keys[i]])
    THEN LET r == StoreTree(h, m[keys[i]].map)
         IN  StoreKeys(r.heap, m, keys, i + 1, MapPut(obj, keys[i], [ref |-> r.ref]))
    ELSE StoreKeys(h, m, keys, i + 1, MapPut(obj, keys[i], m[keys[i]]))

RECURSIVE SetAt(_, _, _, _, _)
\* c.Set(key, value), current being the address of the map the loop is at: the
\* map objects are written in place.
SetAt(h, current, keys, i, value) ==
    IF i = Len(keys) THEN [h EXCEPT ![current] = MapPut(@, keys[i], value)]
    ELSE IF keys[i] \in DOMAIN h[current] /\ Kind(h[current][keys[i]]) = "ref"
    THEN SetAt(h, h[current][keys[i]].ref, keys, i + 1, value)
    ELSE SetAt(Append([h EXCEPT ![current] = MapPut(@, keys[i], [ref |-> Len(h) + 1])],
                      EmptyMap),
               Len(h) + 1, keys, i + 1, value)

\* c.Merge(other): c.data[k] = v for every k, v of other.data; a nested map is
\* copied as the address it is.
MergeAt(h, data, other) ==
    [h EXCEPT ![data] = [k \in DOMAIN h[data] \cup DOMAIN h[other] |->
                            IF k \in DOMAIN h[other] THEN h[other][k] ELSE h[data][k]]]

RECURSIVE Unmarshalled(_)
\* json.Unmarshal(json.Marshal(x)) into a value of type any: every number comes
\* back as a float64, every map and list as a new one.
Unmarshalled(x) ==
    IF Kind(x) = "int" THEN VFloat(<<x.int, 0>>)
    ELSE IF Kind(x) = "list" THEN VList([j \in 1..Len(x.list) |-> Unmarshalled(x.list[j])])
    ELSE IF Kind(x) = "map" THEN VMap([k \in DOMAIN x.map |-> Unmarshalled(x.map[k])])
    ELSE x

\* c.Clone(), data being c's map: New(), then the JSON text of c.data is
\* unmarshalled into the new Config's data.
CloneAt(h, data) == StoreTree(h, Unmarshalled(VMap(Deref(h, data))).map)

\* The most operations on the two Configs.
MaxAliasOps == 3

AliasKeys == {"name", "db.host", "db.pool.size"}

AliasValues == {VString("x"), VInt(2)}

\* The declarations parsed into a Config that already holds values.
AliasDecls ==
    { [text |-> "string db.host = \"p\";\n", name |-> "db.host"],
      [text |-> "number port = 9;\n", name |-> "port"] }

\* The Config t names and the other one.
ConfigOf(t) == IF t = 1 THEN c ELSE c2

OtherOf(t) == IF t = 1 THEN c2 ELSE c

\* What the caller of an operation on Config t sees: the operation, the Config
\* and the tree of the other Config before it.
AliasCall(op, t) == [op |-> op, on |-> t, other |-> Deref(heap, OtherOf(t).data)]

\* Two Configs made with New(), and the file NewConfig reads.
InitAlias ==
    /\ heap = <<EmptyMap, EmptyMap>>
    /\ c = [New EXCEPT !.data = 1]
    /\ c2 = [New EXCEPT !.data = 2]
    /\ globalMapStyle = "Auto"
    /\ err = NoErr
    /\ out = ""
    /\ err2 = NoErr
    /\ file = "map db = {\"host\": \"h\", \"port\": 1};\nstring name = \"app\";\n"
    /\ nOps = 0
    /\ configCache = NoCache
    /\ cacheMutex = Unlocked
    /\ gs = [g \in Goroutines |-> Idle]
    /\ last = [op |-> "New", on |-> 0, other |-> EmptyMap]

\* cfg, err := NewConfig(path)
NewConfigFile ==
    \E t \in {1, 2} :
        /\ nOps < MaxAliasOps
        /\ LET st == StoreTree(heap, Parse(New, file).c.data)
           IN  /\ heap' = st.heap
               /\ c' = IF t = 1 THEN [New EXCEPT !.data = st.ref] ELSE c
               /\ c2' = IF t = 2 THEN [New EXCEPT !.data = st.ref] ELSE c2
        /\ nOps' = nOps + 1
        /\ last' = AliasCall("NewConfig", t)
        /\ UNCHANGED <<globalMapStyle, err, out, err2, file, configCache, cacheMutex, gs>>

\* cfg.Set(key, value)
SetKey ==
    \E t \in {1, 2}, key \in AliasKeys, value \in AliasValues :
        /\ nOps < MaxAliasOps
        /\ heap' = SetAt(heap, ConfigOf(t).data, Split(key, "."), 1, value)
        /\ nOps' = nOps + 1
        /\ last' = AliasCall("Set", t)
        /\ UNCHANGED <<c, c2, globalMapStyle, err, out, err2, file, configCache,
                       cacheMutex, gs>>

\* cfg.Parse(text) of one declaration: parseLine assigns the parsed value with
\* c.Set(varName, parsedValue).
ParseInto ==
    \E t \in {1, 2}, d \in AliasDecls :
        /\ nOps < MaxAliasOps
        /\ heap' = SetAt(heap, ConfigOf(t).data, Split(d.name, "."), 1,
                         Get(Parse(New, d.text).c.data, d.name).val)
        /\ nOps' = nOps + 1
        /\ last' = AliasCall("Parse", t)
        /\ UNCHANGED <<c, c2, globalMapStyle, err, out, err2, file, configCache,
                       cacheMutex, gs>>

\* cfg.Merge(other)
MergeConfig ==
    \E t \in {1, 2} :
        /\ nOps < MaxAliasOps
        /\ heap' = MergeAt(heap, ConfigOf(t).data, OtherOf(t).data)
        /\ nOps' = nOps + 1
        /\ last' = AliasCall("Merge", t)
        /\ UNCHANGED <<c, c2, globalMapStyle, err, out, err2, file, configCache,
                       cacheMutex, gs>>

\* cfg = other.Clone()
CloneConfig ==
    \E t \in {1, 2} :
        /\ nOps < MaxAliasOps
        /\ LET st == CloneAt(heap, OtherOf(t).data)
           IN  /\ heap' = st.heap
               /\ c' = IF t = 1 THEN [New EXCEPT !.data = st.ref] ELSE c
               /\ c2' = IF t = 2 THEN [New EXCEPT !.data = st.ref] ELSE c2
        /\ nOps' = nOps + 1
        /\ last' = AliasCall("Clone", t)
        /\ UNCHANGED <<globalMapStyle, err, out, err2, file, configCache, cacheMutex, gs>>

NextAlias == NewConfigFile \/ SetKey \/ ParseInto \/ MergeConfig \/ CloneConfig

SpecAlias == InitAlias /\ [][NextAlias]_vars

----------------------------------------------------------------------------
(* Cache(filepath) called by several goroutines while the file has no entry,
   the maps being told apart by their addresses *)

\* The state after main wrote the file: nothing cached, no map loaded yet.
InitCacheRace ==
    /\ file = "map server = {\"host\": \"localhost\", \"port\": 8080};\nstring app = \"v1\";\n"
    /\ c = New
    /\ globalMapStyle = "Auto"
    /\ err = NoErr
    /\ out = ""
    /\ c2 = New
    /\ err2 = NoErr
    /\ nOps = 0
    /\ CacheInit
    /\ last = NoCall

\* go func() { data, err := dml.Cache(path); ... }(): the goroutine's one call.
CacheCall ==
    \E g \in Goroutines :
        /\ gs[g].pc = "idle"
        /\ gs' = [gs EXCEPT ![g] = [Idle EXCEPT !.op = "Cache", !.pc = "rlock"]]
        /\ UNCHANGED <<heap, c, globalMapStyle, err, out, c2, err2, file, nOps, last,
                       configCache, cacheMutex>>

\* cached, exists := configCache[filepath]: on a hit the call will return the
\* map of the entry, the one at configCache.data.
CacheLookup ==
    \E g \in Goroutines :
        /\ gs[g].pc = "lookup"
        /\ gs' = [gs EXCEPT ![g] =
                     IF configCache.present
                     THEN [gs[g] EXCEPT !.pc = "runlock-hit",
                                        !.fresh = [c |-> [data |-> configCache.data],
                                                   err |-> NoErr]]
                     ELSE [gs[g] EXCEPT !.pc = "runlock-miss"]]
        /\ UNCHANGED <<heap, c, globalMapStyle, err, out, c2, err2, file, nOps, last,
                       configCache, cacheMutex>>

\* cacheMutex.RUnlock(): return cached, nil after a hit, on to Load after a miss.
CacheRUnlock ==
    \E g \in Goroutines :
        /\ gs[g].pc \in {"runlock-hit", "runlock-miss"}
        /\ cacheMutex' = [cacheMutex EXCEPT !.readers = @ \ {g}]
        /\ gs' = [gs EXCEPT ![g].pc = IF gs[g].pc = "runlock-hit" THEN "returned"
                                                                  ELSE "load"]
        /\ UNCHANGED <<heap, c, globalMapStyle, err, out, c2, err2, file, nOps, last, configCache>>

\* data, err := Load(filepath): Parse builds a new map, at a new address; with
\* an error the call returns nil and the error.
CacheLoad ==
    \E g \in Goroutines :
        /\ gs[g].pc = "load"
        /\ LET r == Load(file)
           IN  IF r.err # NoErr
               THEN /\ heap' = heap
                    /\ gs' = [gs EXCEPT ![g] = [gs[g] EXCEPT !.pc = "returned",
                                                             !.fresh = [c |-> [data |-> 0],
                                                                        err |-> r.err]]]
               ELSE /\ heap' = Append(heap, r.c.data)
                    /\ gs' = [gs EXCEPT ![g] = [gs[g] EXCEPT !.pc = "lock",
                                                             !.fresh = [c |-> [data |-> Len(heap) + 1],
                                                                        err |-> NoErr]]]
        /\ UNCHANGED <<c, globalMapStyle, err, out, c2, err2, file, nOps, last,
                       configCache, cacheMutex>>

\* configCache[filepath] = data, the mutex held; nOps counts the stores.
CacheStore ==
    \E g \in Goroutines :
        /\ gs[g].pc = "write"
        /\ configCache' = [present |-> TRUE, data |-> gs[g].fresh.c.data]
        /\ nOps' = nOps + 1
        /\ gs' = [gs EXCEPT ![g].pc = "unlock"]
        /\ UNCHANGED <<heap, c, globalMapStyle, err, out, c2, err2, file, last, cacheMutex>>

\* cacheMutex.Unlock(); return data, nil
CacheReturn ==
    \E g \in Goroutines :
        /\ gs[g].pc = "unlock"
        /\ cacheMutex' = [cacheMutex EXCEPT !.writer = 0]
        /\ gs' = [gs EXCEPT ![g].pc = "returned"]
        /\ UNCHANGED <<heap, c, globalMapStyle, err, out, c2, err2, file, nOps, last, configCache>>

NextCacheRace ==
    \/ CacheCall \/ GoWriteFile \/ GoRLock \/ CacheLookup \/ CacheRUnlock \/ CacheLoad
    \/ GoLock \/ CacheStore \/ CacheReturn

SpecCacheRace == InitCacheRace /\ [][NextCacheRace]_vars

----------------------------------------------------------------------------
(* Properties *)

RECURSIVE PathsIn(_, _)
\* Every dotted key path of the tree m, the paths of nested maps included.
PathsIn(m, prefix) ==
    UNION { {IF prefix = "" THEN k ELSE prefix \o "." \o k}
            \cup (IF IsMap(m[k])
                  THEN PathsIn(m[k].map, IF prefix = "" THEN k ELSE prefix \o "." \o k)
                  ELSE {}) : k \in DOMAIN m }

\* C1: round trip.  After a Config built from literal-expressible values is
\* dumped under any style and the text is parsed into a fresh Config, the parse
\* has succeeded and Get returns, for every key path of the original tree, the
\* value it returns on the original.
C1_RoundTrip ==
    last.op = "ParseDump" =>
        /\ err2 = NoErr
        /\ \A k \in PathsIn(c.data, "") : Get(c2.data, k) = Get(c.data, k)

\* C2: idempotence of serialization.  Dumping the Config parsed from Dump(cfg),
\* under the same style, gives the text Dump(cfg) character for character.
C2_DumpIdempotent ==
    last.op = "ParseDump" => Dump(c2, globalMapStyle) = out

\* C3: a valid single declaration <type> <name> = <literal>; parses without an
\* error, and Get(name) then returns the value the literal denotes, of the kind
\* the type declares.
C3_ValidDeclaration ==
    (last.op = "ParseDeclaration" /\ last.in.name \in ValidNames) =>
        /\ err = NoErr
        /\ Get(c.data, last.in.name) = [found |-> TRUE, val |-> last.in.value]

\* The map literals of ValidDecls that hold a nested map: as the first entry, as
\* a middle entry, as the last entry.
NestedMapLiterals ==
    { "{\"nested\": {\"port\": 5432}, \"host\": \"db\"}",
      "{\"host\": \"db\", \"nested\": {\"port\": 5432}, \"on\": true}",
      "{\"host\": \"db\", \"nested\": {\"port\": 5432}}" }

\* C4: a nested map, whatever the position of its entry in the map literal, is
\* parsed into a Map: the dotted Get through it finds the number 5432.
C4_NestedMapAnyPosition ==
    (/\ last.op = "ParseDeclaration"
     /\ last.in.name \in ValidNames
     /\ last.in.literal \in NestedMapLiterals) =>
        /\ err = NoErr
        /\ Get(c.data, last.in.name \o ".nested.port") = [found |-> TRUE, val |-> VInt(5432)]

\* C5: a Type error returned for a single-line declaration carries line 1 and
\* the 1-based column at which the value text begins in the source line.
C5_TypeErrorColumn ==
    (last.op \in {"ParseDeclaration", "ParseIllTyped"} /\ err.type = "Type") =>
        /\ err.line = 1
        /\ err.col = LiteralColumn(last.in.pad, last.in.type, last.in.name)

\* The identifier rule: a letter or underscore first, then letters, digits,
\* underscores and dots.
ObeysIdentifierRule(name) ==
    /\ name # ""
    /\ Ch(name, 1) \in LowerCase \cup UpperCase \cup {"_"}
    /\ \A i \in 2..Len(name) : Ch(name, i) \in LowerCase \cup UpperCase \cup Digits \cup {"_", "."}

\* C6: a declaration whose name breaks the identifier rule gets a Validation
\* error on its line, at the 1-based column of the name in the source line, and
\* assigns no key; a name that obeys the rule draws no Validation error.
C6_IdentifierRule ==
    last.op \in {"ParseDeclaration", "ParseIllTyped", "ParseMultiLine"} =>
        IF ObeysIdentifierRule(last.in.name)
        THEN err.type # "Validation"
        ELSE /\ err = DMLError("Validation", 1, NameColumn(last.in.pad, last.in.type))
             /\ c.data = EmptyMap

RECURSIVE FlatLeaves(_, _)
\* The leaves of the tree m, each with its dotted path: the values reached
\* through maps that are not maps themselves.
FlatLeaves(m, prefix) ==
    UNION { IF IsMap(m[k])
            THEN FlatLeaves(m[k].map, IF prefix = "" THEN k ELSE prefix \o "." \o k)
            ELSE {<<IF prefix = "" THEN k ELSE prefix \o "." \o k, m[k]>>} : k \in DOMAIN m }

RECURSIVE LiteralText(_), LiteralItems(_, _)
\* The literal of the grammar that denotes a value which is not a map.
LiteralText(x) ==
    IF Kind(x) = "string" THEN "\"" \o x.string \o "\""
    ELSE IF Kind(x) = "int" THEN FormatInt(x.int)
    ELSE IF Kind(x) = "float" THEN FormatFloat(x.float)
    ELSE IF Kind(x) = "bool" THEN (IF x.bool THEN "true" ELSE "false")
    ELSE "[" \o LiteralItems(x.list, 1) \o "]"

LiteralItems(l, i) ==
    IF i > Len(l) THEN ""
    ELSE (IF i > 1 THEN ", " ELSE "") \o LiteralText(l[i]) \o LiteralItems(l, i + 1)

\* The type keyword Dump infers for a value which is not a map.
TypeWord(x) ==
    IF Kind(x) = "string" THEN "string"
    ELSE IF Kind(x) \in {"int", "float"} THEN "number"
    ELSE IF Kind(x) = "bool" THEN "boolean"
    ELSE "list"

\* The declaration <type> <dotted-path> = <literal>; of a leaf.
LeafLine(leaf) == TypeWord(leaf[2]) \o " " \o leaf[1] \o " = " \o LiteralText(leaf[2]) \o ";"

\* The physical lines of a text, as a set.
LinesOf(text) == {Split(text, "\n")[i] : i \in 1..Len(Split(text, "\n"))}

\* What C7 says of the text Dump returns for the tree data under Flat.
FlatText(text, data) ==
    /\ HasPrefix(text, "@mapStyle flat\n\n")
    /\ ~Contains(SubSeq(text, 2, Len(text)), "@mapStyle")
    /\ \A line \in LinesOf(text) : ~HasPrefix(line, "map ")
    /\ LinesOf(text) \ {"", "@mapStyle flat"} = {LeafLine(leaf) : leaf \in FlatLeaves(data, "")}

\* C7: under the effective style Flat, the text Dump returns opens with the
\* header @mapStyle flat and a blank line, holds that header once, holds no line
\* that opens a map block, and its other lines are exactly the declarations
\* <type> <dotted-path> = <literal>; of the leaves of the tree, the leaves of
\* maps at every depth included; so it is for a Config built by Set and for one
\* built by Parse from a text that carries the directive.
C7_FlatDump ==
    /\ (last.op = "Dump" /\ getEffectiveMapStyle(c, globalMapStyle) = "Flat") =>
           FlatText(out, c.data)
    /\ (last.op = "ParseDump" /\ getEffectiveMapStyle(c2, globalMapStyle) = "Flat") =>
           FlatText(Dump(c2, globalMapStyle), c2.data)

\* A Flat dump of a tree in which the map db holds the map nested: its leaf is
\* written under the dotted path db.nested.port.
C7_Witness ==
    /\ last.op = "Dump"
    /\ getEffectiveMapStyle(c, globalMapStyle) = "Flat"
    /\ Get(c.data, "db.nested").found
    /\ IsMap(Get(c.data, "db.nested").val)
    /\ "number db.nested.port = 5432;" \in LinesOf(out)

\* C8: a list or map declaration spread over several physical lines gives the
\* value tree, and the success or failure, of the same declaration written on
\* one line, the pieces set side by side or a space apart.
C8_MultiLineAsSingleLine ==
    (last.op = "ParseMultiLine" /\ last.in.name \in ValidNames) =>
        \A sep \in {"", " "} :
            /\ Parse(New, SingleLineText(last.in.pad, last.in.type, last.in.name,
                                         last.in.pieces, sep)).c.data = c.data
            /\ (Parse(New, SingleLineText(last.in.pad, last.in.type, last.in.name,
                                          last.in.pieces, sep)).err = NoErr) <=> (err = NoErr)

\* A call of applyDefault for a key that resolved, before the call, to a value of
\* another kind than the default's.
KindMismatch(call, defaults) ==
    /\ Get(call.before, call.key).found
    /\ Kind(Get(call.before, call.key).val) # Kind(defaults[call.key])

\* What C9 says of such a call: it returns the type-mismatch error and leaves
\* the key's value as it was, and ApplyDefaults returns the error and leaves the
\* file as it was.
MismatchRejected(call) ==
    /\ call.err = TypeMismatch
    /\ Get(call.after, call.key) = Get(call.before, call.key)
    /\ err = TypeMismatch
    /\ ~last.pass.saved
    /\ file = last.pass.file

\* C9, as amended: with StrictTypes and Override set and OnlyMissing not set,
\* every call of applyDefault for a key that already resolves to a value of a
\* different kind is rejected, and the file is not rewritten.
C9_StrictMismatch ==
    (/\ last.op = "ApplyDefaults"
     /\ last.pass.policy.StrictTypes
     /\ last.pass.policy.Override
     /\ ~last.pass.policy.OnlyMissing) =>
        \A i \in DOMAIN last.pass.calls :
            KindMismatch(last.pass.calls[i], last.pass.defaults) =>
                MismatchRejected(last.pass.calls[i])

\* C9, as stated: with StrictTypes and Override set, whatever OnlyMissing is.
C9_AsStated ==
    (/\ last.op = "ApplyDefaults"
     /\ last.pass.policy.StrictTypes
     /\ last.pass.policy.Override) =>
        \A i \in DOMAIN last.pass.calls :
            KindMismatch(last.pass.calls[i], last.pass.defaults) =>
                MismatchRejected(last.pass.calls[i])

\* A pass under StrictTypes and Override without OnlyMissing over the file that
\* holds the number port, the default for port being a string: the error is
\* returned and the file is as it was.
C9_Witness ==
    /\ last.op = "ApplyDefaults"
    /\ last.pass.policy.StrictTypes
    /\ last.pass.policy.Override
    /\ ~last.pass.policy.OnlyMissing
    /\ \E i \in DOMAIN last.pass.calls :
           /\ KindMismatch(last.pass.calls[i], last.pass.defaults)
           /\ last.pass.calls[i].key = "port"
    /\ err = TypeMismatch
    /\ file = "number port = 8080;\n"

\* C10: a pass under a policy with OnlyMissing set, or with Override not set,
\* overrides no existing value: every key path that resolved before the pass
\* resolves to the same value after it, and a key path that resolves only after
\* it belongs to a default whose key did not resolve before.
C10_NeverOverrides ==
    (/\ last.op = "ApplyDefaults"
     /\ (last.pass.policy.OnlyMissing \/ ~last.pass.policy.Override)) =>
        /\ \A k \in PathsIn(last.pass.loaded, "") :
               Get(last.pass.result, k) = Get(last.pass.loaded, k)
        /\ \A k \in PathsIn(last.pass.result, "") \ PathsIn(last.pass.loaded, "") :
               \E d \in DOMAIN last.pass.defaults :
                   /\ ~Get(last.pass.loaded, d).found
                   /\ (k = d \/ HasPrefix(d, k \o ".") \/ HasPrefix(k, d \o "."))

\* What C11 says of a pass that returned no error: every key of the default set
\* resolves to its default value and is recorded as default-populated.
DefaultsResolve ==
    \A key \in DOMAIN last.pass.defaults :
        /\ Get(last.pass.result, key) = [found |-> TRUE, val |-> last.pass.defaults[key]]
        /\ key \in last.pass.keys

\* No key of the default set is a dotted prefix of another key of the set.
PrefixFree(defaults) ==
    \A k1, k2 \in DOMAIN defaults : ~HasPrefix(k2, k1 \o ".")

\* C11, as amended: under the policy Permissive (Override set; StrictTypes,
\* OnlyMissing and SkipIfPresent not set), after a pass over a default set none
\* of whose keys is a dotted prefix of another, every (key, value) pair of the
\* set resolves, whether or not the key existed before, and every key is
\* recorded as default-populated.
C11_PermissiveApplies ==
    (/\ last.op = "ApplyDefaults"
     /\ last.pass.policy.Override
     /\ ~last.pass.policy.StrictTypes
     /\ ~last.pass.policy.OnlyMissing
     /\ ~last.pass.policy.SkipIfPresent
     /\ PrefixFree(last.pass.defaults)) =>
        /\ err = NoErr
        /\ DefaultsResolve

\* C11, as stated: with Override set and StrictTypes not set, whatever the
\* other two fields of the policy and whatever the default set.
C11_AsStated ==
    (/\ last.op = "ApplyDefaults"
     /\ last.pass.policy.Override
     /\ ~last.pass.policy.StrictTypes) =>
        /\ err = NoErr
        /\ DefaultsResolve

\* A Permissive pass over the file that holds port and host, with defaults for
\* port (existing, another value), host (existing) and timeout (missing).
C11_Witness ==
    /\ last.op = "ApplyDefaults"
    /\ last.pass.policy = [Override |-> TRUE, StrictTypes |-> FALSE,
                           OnlyMissing |-> FALSE, SkipIfPresent |-> FALSE]
    /\ last.pass.file = "number port = 8080;\nstring host = \"h\";\n"
    /\ DOMAIN last.pass.defaults = {"port", "host", "timeout"}
    /\ Get(last.pass.loaded, "port") = [found |-> TRUE, val |-> VInt(8080)]
    /\ Get(last.pass.result, "port") = [found |-> TRUE, val |-> VInt(9000)]
    /\ Get(last.pass.result, "timeout") = [found |-> TRUE, val |-> VInt(30)]
    /\ last.pass.keys = {"port", "host", "timeout"}

\* C12: a pass under a policy with SkipIfPresent set over a file whose tree has
\* at least one top-level key skips the whole default set: applyDefault is not
\* called, the tree is as loaded, no key is recorded as default-populated, no
\* error is returned and the file is not written.
C12_SkipIfPresent ==
    (/\ last.op = "ApplyDefaults"
     /\ last.pass.policy.SkipIfPresent
     /\ DOMAIN last.pass.loaded # {}) =>
        /\ last.pass.calls = <<>>
        /\ last.pass.result = last.pass.loaded
        /\ last.pass.keys = {}
        /\ err = NoErr
        /\ ~last.pass.saved
        /\ file = last.pass.file

\* A pass with SkipIfPresent set, Override set and nothing else, over the file
\* that holds port, the defaults naming port (another value) and the missing
\* timeout: neither is assigned.
C12_Witness ==
    /\ last.op = "ApplyDefaults"
    /\ last.pass.policy = [Override |-> TRUE, StrictTypes |-> FALSE,
                           OnlyMissing |-> FALSE, SkipIfPresent |-> TRUE]
    /\ last.pass.file = "number port = 8080;\n"
    /\ DOMAIN last.pass.defaults = {"port", "host", "timeout"}
    /\ last.pass.result = [port |-> VInt(8080)]
    /\ ~Get(last.pass.result, "timeout").found
    /\ file = "number port = 8080;\n"

\* The header Dump writes under an effective style.
HeaderFor(style) ==
    IF style = "JSON" THEN "@mapStyle json\n\n"
    ELSE IF style = "Flat" THEN "@mapStyle flat\n\n"
    ELSE ""

\* The text opens with the header of the style and holds no other directive.
HasHeader(text, style) ==
    /\ HasPrefix(text, HeaderFor(style))
    /\ ~Contains(SubSeq(text, Len(HeaderFor(style)) + 1, Len(text)), "@mapStyle")

\* The directives parsed are all among the valid ones.
AllValid(dirs) == \A i \in DOMAIN dirs : dirs[i] \in ValidDirectives

\* C13, as amended: after Parse of a text with one or two valid @mapStyle
\* directives, the Config's own style is the one the last directive names; its
\* effective style is that style for json and flat and the package-level style
\* for auto; and a following Dump emits the header of the effective style.
C13_LastDirectiveWins ==
    (last.op \in {"ParseDirectives", "DumpParsed"} /\ AllValid(last.in.dirs)) =>
        /\ err = NoErr
        /\ c.mapStyle = last.in.dirs[Len(last.in.dirs)].style
        /\ getEffectiveMapStyle(c, globalMapStyle) =
               IF last.in.dirs[Len(last.in.dirs)].style = "Auto"
               THEN globalMapStyle
               ELSE last.in.dirs[Len(last.in.dirs)].style
        /\ last.op = "DumpParsed" =>
               HasHeader(out, getEffectiveMapStyle(c, globalMapStyle))

\* C13, as stated: the effective style is the one the last directive names, and
\* the Dump emits that style's header.
C13_AsStated ==
    (last.op \in {"ParseDirectives", "DumpParsed"} /\ AllValid(last.in.dirs)) =>
        /\ err = NoErr
        /\ getEffectiveMapStyle(c, globalMapStyle) = last.in.dirs[Len(last.in.dirs)].style
        /\ last.op = "DumpParsed" =>
               HasHeader(out, last.in.dirs[Len(last.in.dirs)].style)

\* A text whose first directive names flat and whose second names JSON in
\* capitals, parsed and dumped: the dump opens with the json header.
C13_Witness ==
    /\ last.op = "DumpParsed"
    /\ Len(last.in.dirs) = 2
    /\ last.in.dirs[1].line = "@mapStyle flat"
    /\ last.in.dirs[2].line = "@mapStyle JSON"
    /\ c.mapStyle = "JSON"
    /\ HasPrefix(out, "@mapStyle json\n\nmap db = {")

\* The index of the first directive of dirs that is not valid.
FirstInvalid(dirs) == MinOf({i \in DOMAIN dirs : dirs[i] \in InvalidDirectives})

\* C14: Parse of a text with a directive of unknown name, of unknown mapStyle
\* value or without value returns a Validation error carrying the line of the
\* first such directive, and the Config's style is what it was before that
\* directive: the style the directive before it named, or the style the Config
\* had when Parse was called.
C14_InvalidDirective ==
    (last.op = "ParseDirectives" /\ ~AllValid(last.in.dirs)) =>
        /\ err.type = "Validation"
        /\ err.line = FirstInvalid(last.in.dirs) + (IF last.in.lead THEN 1 ELSE 0)
        /\ c.mapStyle = IF FirstInvalid(last.in.dirs) = 1
                        THEN last.in.before
                        ELSE last.in.dirs[1].style

\* A Config set to Flat parses a text whose second line is a directive naming
\* json and whose third is a mapStyle directive of unknown value: the error
\* names line 3 and the style is JSON.
C14_Witness ==
    /\ last.op = "ParseDirectives"
    /\ last.in.lead
    /\ last.in.before = "Flat"
    /\ Len(last.in.dirs) = 2
    /\ last.in.dirs[1].line = "@mapStyle json"
    /\ last.in.dirs[2].line = "@mapStyle invalid"
    /\ err = DMLError("Validation", 3, 1)
    /\ c.mapStyle = "JSON"

\* The lines of a text, in their order.
LineSeq(text) == Split(text, "\n")

\* The line is a declaration: it opens with a type word.
IsDeclLine(line) ==
    \E w \in {"string ", "number ", "boolean ", "list ", "map "} : HasPrefix(line, w)

\* The line is an entry of a map block:   "key": value
IsEntryLine(line) == HasPrefix(line, "  \"")

\* The name a declaration line declares, the key an entry line opens with.
DeclName(line) == Fields(line)[2]
EntryKey(line) == SubSeq(line, 4, IndexFrom(line, "\"", 4) - 1)

\* The declarations of a text come in ascending order of their names, and the
\* consecutive entries of a map block in ascending order of their keys.
KeysAscend(text) ==
    /\ \A i, j \in DOMAIN LineSeq(text) :
           (i < j /\ IsDeclLine(LineSeq(text)[i]) /\ IsDeclLine(LineSeq(text)[j])) =>
               StrLess(DeclName(LineSeq(text)[i]), DeclName(LineSeq(text)[j]))
    /\ \A i \in DOMAIN LineSeq(text) :
           (/\ i < Len(LineSeq(text))
            /\ IsEntryLine(LineSeq(text)[i])
            /\ IsEntryLine(LineSeq(text)[i + 1])) =>
               StrLess(EntryKey(LineSeq(text)[i]), EntryKey(LineSeq(text)[i + 1]))
    /\ ~Contains(text, "\"port\": 1, \"host\"")

\* C15: the text Dump returns visits the keys of every map in lexicographic
\* order, whatever the order of the calls of Set that built the tree; it is the
\* text Dump returns for a Config that holds the same tree and has the effective
\* style as its own style; and a Config built by Parse that holds the same tree
\* under the same effective style dumps to the same text.
C15_DumpDeterministic ==
    /\ last.op = "Dump" =>
           /\ KeysAscend(out)
           /\ out = Dump([New EXCEPT !.data = c.data,
                                     !.mapStyle = getEffectiveMapStyle(c, globalMapStyle)],
                         "Auto")
    /\ (/\ last.op = "ParseDump"
        /\ c2.data = c.data
        /\ getEffectiveMapStyle(c2, globalMapStyle) = getEffectiveMapStyle(c, globalMapStyle)) =>
           Dump(c2, globalMapStyle) = out

\* A Config on which name was set before db, dumped: db is declared first, and
\* in the map block of db the entry host stands before the entry port.
C15_Witness ==
    /\ last.op = "Dump"
    /\ last.sets = <<"name", "db">>
    /\ getEffectiveMapStyle(c, globalMapStyle) = "JSON"
    /\ Index(out, "map db = {\n  \"host\": \"h\",\n  \"port\": 1\n};") > 0
    /\ Index(out, "map db = {") < Index(out, " name = ")

\* The keys of a list, as a set.
Listed(keys) == {keys[i] : i \in DOMAIN keys}

\* What C16 says of a call that read the tree fresh from the file: of the
\* top-level keys, those listed and present in fresh have the file's value in
\* after, and every other key is in after what it was in before, present with
\* the same value or absent.
OnlyListedChanged(before, after, fresh, listed) ==
    \A k \in DOMAIN before \cup DOMAIN after \cup DOMAIN fresh \cup listed :
        IF k \in listed /\ k \in DOMAIN fresh
        THEN k \in DOMAIN after /\ after[k] = fresh[k]
        ELSE /\ (k \in DOMAIN after) <=> (k \in DOMAIN before)
             /\ k \in DOMAIN before => after[k] = before[k]

\* C16 for a call whose target tree went from before to after, fresh being what
\* Parse made of the file.
ReloadKeysFrame(before, after, fresh) ==
    IF fresh.err # NoErr
    THEN err = fresh.err /\ after = before
    ELSE err = NoErr /\ OnlyListedChanged(before, after, fresh.c.data, Listed(last.keys))

\* C16: a call of ReloadKeys, the package function on the cache entry or the
\* method on a Config, changes only the top-level keys that are listed and
\* present in the freshly parsed file, giving each the file's value; every other
\* key keeps its value or its absence; the package function leaves the Config
\* alone and the method the cache; and a file that does not parse changes
\* nothing.
C16_ReloadKeysFrame ==
    /\ last.op = "ReloadKeys" =>
           /\ ReloadKeysFrame(CachedTree(last.cache), configCache.data, Parse(New, file))
           /\ c.data = last.c
    /\ last.op = "Config.ReloadKeys" =>
           /\ ReloadKeysFrame(last.c, c.data, Parse(New, file))
           /\ configCache = last.cache

\* The method, called with app and server on a Config that holds server, app
\* and port, the file now holding another server and another app and no port:
\* server and app are the file's, port is kept.
C16_WitnessConfig ==
    /\ last.op = "Config.ReloadKeys"
    /\ last.keys = <<"app", "server">>
    /\ DOMAIN last.c = {"app", "port", "server"}
    /\ Get(last.c, "server.host") = [found |-> TRUE, val |-> VString("localhost")]
    /\ Get(c.data, "server.host") = [found |-> TRUE, val |-> VString("prod")]
    /\ Get(c.data, "app") = [found |-> TRUE, val |-> VString("v2")]
    /\ Get(c.data, "port") = [found |-> TRUE, val |-> VInt(1)]

\* The map the next step of goroutine g reads or writes, and which of the two:
\* the cache (configCache and the tree it holds) or the Config's tree.
Accessing(g) ==
    IF gs[g].pc = "lookup" THEN [map |-> "configCache", kind |-> "read"]
    ELSE IF gs[g].pc = "write" THEN [map |-> "configCache", kind |-> "write"]
    ELSE IF gs[g].pc = "copy" THEN [map |-> "c.data", kind |-> "write"]
    ELSE [map |-> "none", kind |-> "none"]

\* C17: every goroutine about to write the cache or the Config's tree holds
\* cacheMutex for writing; no two goroutines are about to write the same map;
\* and none is about to read a map another is about to write.
C17_ThreadSafe ==
    /\ \A g \in Goroutines :
           Accessing(g).kind = "write" => cacheMutex.writer = g
    /\ \A g, h \in Goroutines :
           (g # h /\ Accessing(g).kind = "write") => Accessing(h).map # Accessing(g).map

\* The kind of value each typed accessor is for.
AccessorKind ==
    [GetString |-> "string", GetInt |-> "int", GetFloat |-> "float",
     GetBool |-> "bool", GetList |-> "list", GetMap |-> "map"]

\* The last call was the accessor op, on a key path that is absent or resolves
\* to a value of another kind.
AbsentOrOtherKind(op) ==
    /\ last.op = op
    /\ \/ ~Get(c.data, last.key).found
       \/ Kind(Get(c.data, last.key).val) # AccessorKind[op]

\* C18: a typed accessor called on a key path that is absent or resolves to a
\* value of another kind returns the zero value of its type.
C18_ZeroValue ==
    /\ AbsentOrOtherKind("GetString") => last.ret = ""
    /\ AbsentOrOtherKind("GetInt") => last.ret = 0
    /\ AbsentOrOtherKind("GetFloat") => last.ret = <<0, 0>>
    /\ AbsentOrOtherKind("GetBool") => last.ret = FALSE
    /\ AbsentOrOtherKind("GetList") => last.ret = <<>>
    /\ AbsentOrOtherKind("GetMap") => last.ret = EmptyMap

RECURSIVE MapPathsIn(_, _)
\* The dotted key paths of the tree m that hold a Map.
MapPathsIn(m, prefix) ==
    UNION { IF IsMap(m[k])
            THEN {IF prefix = "" THEN k ELSE prefix \o "." \o k}
                 \cup MapPathsIn(m[k].map, IF prefix = "" THEN k ELSE prefix \o "." \o k)
            ELSE {} : k \in DOMAIN m }

\* The intermediate segments of a key path, each as the dotted path that leads
\* to it.
Intermediates(key) == {SubSeq(key, 1, j - 1) : j \in {i \in 1..Len(key) : Ch(key, i) = "."}}

\* The key paths Get is asked for.
GetKeys ==
    SetKeys \cup {"db.port", "db.nested", "db.nested.port", "db.host.x", "name.x",
                  "missing", "missing.x", "db.pool", "db.pool.size"}

\* Get(key) reports found exactly when every intermediate segment holds a Map
\* and the whole path is a path of the tree.
GetFindsPaths ==
    \A key \in GetKeys :
        Get(c.data, key).found <=>
            /\ Intermediates(key) \subseteq MapPathsIn(c.data, "")
            /\ key \in PathsIn(c.data, "")

\* A step that is c.Set(key, value) on a tree in which no intermediate segment
\* of key holds a value that is not a Map.
SetOverMaps(key, value) ==
    /\ nOps' = nOps + 1
    /\ c' = [c EXCEPT !.data = Set(c.data, key, value)]
    /\ Intermediates(key) \cap PathsIn(c.data, "") \subseteq MapPathsIn(c.data, "")

\* C19: Get(path) reports found exactly when every intermediate segment exists
\* and is a Map and the final segment exists; and after Set(path, v) on a tree
\* in which no intermediate segment holds a non-Map value, every intermediate
\* segment is a Map and Get(path) returns v.
C19_GetSetResolve ==
    /\ []GetFindsPaths
    /\ [][\A key \in SetKeys, value \in SetValues :
             SetOverMaps(key, value) =>
                 /\ Intermediates(key) \subseteq MapPathsIn(c'.data, "")
                 /\ Get(c'.data, key) = [found |-> TRUE, val |-> value]]_vars

\* Set("db.pool.size", v) on the empty tree has created db and db.pool as Maps.
C19_Witness ==
    /\ last.op = "Set"
    /\ last.sets = <<"db.pool.size">>
    /\ {"db", "db.pool"} \subseteq MapPathsIn(c.data, "")
    /\ Get(c.data, "db.pool.size").found

\* A step that is c.Set(key, value) on a tree in which an intermediate segment
\* of key exists and holds a value that is not a Map.
SetOverNonMap(key, value) ==
    /\ nOps' = nOps + 1
    /\ c' = [c EXCEPT !.data = Set(c.data, key, value)]
    /\ \E p \in Intermediates(key) :
           p \in PathsIn(c.data, "") \ MapPathsIn(c.data, "")

\* C20: Set(path, value) on a tree in which an existing intermediate segment of
\* path holds a non-Map value leaves the tree as it was.
C20_SetAborts ==
    [][\A key \in SetKeys, value \in SetValues :
           SetOverNonMap(key, value) => c'.data = c.data]_vars

\* C21: a Set on one Config leaves the tree of the other Config, and so
\* everything Get returns on it, as it was before the call.
C21_NoAliasing ==
    last.op = "Set" => Deref(heap, OtherOf(last.on).data) = last.other

\* The class of error C22 gives a declaration, by its first failing check.
ClassOf(in) ==
    IF ~in.semi \/ ~in.eq THEN "Syntax"
    ELSE IF ~in.lhs THEN "Validation"
    ELSE IF ~in.wellTyped THEN "Type"
    ELSE "none"

\* C22: Parse classifies a failing declaration by its first failing check, a
\* missing ";" or "=" as Syntax, then a malformed left-hand side or an unknown
\* type as Validation, then a literal of another form as Type; the error
\* carries the declaration's 1-based line.
C22_ErrorClass ==
    last.op = "ParseFaulty" =>
        /\ err.type = ClassOf(last.in)
        /\ err.type # "none" => err.line = (IF last.in.lead = "" THEN 1 ELSE 3)

\* The first statement of stmts that is not well formed (Len(stmts) + 1 if
\* every one is).
FirstFailing(stmts) ==
    IF \A i \in 1..Len(stmts) : stmts[i].class = "none" THEN Len(stmts) + 1
    ELSE CHOOSE k \in 1..Len(stmts) :
             /\ stmts[k].class # "none"
             /\ \A j \in 1..(k - 1) : stmts[j].class = "none"

RECURSIVE LinesBefore(_, _)
\* The physical lines of the statements before statement k.
LinesBefore(stmts, k) == IF k = 1 THEN 0 ELSE LinesBefore(stmts, k - 1) + stmts[k - 1].lines

\* C23: when statement k is the first one to fail, Parse returns that
\* statement's error, and the Config is what parsing statements 1..k-1 alone
\* leaves: their keys and style are in it and no later statement has acted.
C23_FailFast ==
    (last.op = "Parse" /\ FirstFailing(last.stmts) <= Len(last.stmts)) =>
        /\ err.type = last.stmts[FirstFailing(last.stmts)].class
        /\ err.line = LinesBefore(last.stmts, FirstFailing(last.stmts)) + 1
        /\ c = Parse(New, StatementsText(SubSeq(last.stmts, 1, FirstFailing(last.stmts) - 1), 1)).c

\* A text of three statements whose second fails after the first was committed.
C23_Witness ==
    /\ last.op = "Parse"
    /\ Len(last.stmts) = 3
    /\ FirstFailing(last.stmts) = 2
    /\ last.stmts[3].class = "none"
    /\ last.stmts[3].text # last.stmts[1].text
    /\ err # NoErr
    /\ c # New

\* The cache entry made of the file's current content.
EntryOfFile == [present |-> TRUE, data |-> Parse(New, file).c.data]

\* C24: Cache with an entry at hand returns it and does not read the file,
\* whatever the file holds by now; Cache without an entry parses the file and
\* stores its tree; Reload parses the file and replaces the entry by its tree;
\* ClearCache leaves no entry, so that the next Cache parses again.
C24_CacheReloadClear ==
    /\ (last.op = "Cache" /\ last.cache.present) =>
           (configCache = last.cache /\ err = NoErr)
    /\ (last.op = "Cache" /\ ~last.cache.present /\ Parse(New, file).err = NoErr) =>
           (configCache = EntryOfFile /\ err = NoErr)
    /\ (last.op = "Reload" /\ Parse(New, file).err = NoErr) =>
           (configCache = EntryOfFile /\ err = NoErr)
    /\ last.op = "ClearCache" => configCache = NoCache

\* Cache was called with an entry at hand while the file held another content.
C24_Witness ==
    /\ last.op = "Cache"
    /\ last.cache.present
    /\ Parse(New, file).err = NoErr
    /\ configCache # EntryOfFile

\* The rule of C25: more than 3 keys, or a value that is a Map or a List.
BlockByRule(m) ==
    Cardinality(DOMAIN m) > 3 \/ \E k \in DOMAIN m : Kind(m[k]) \in {"map", "list"}

\* What C25 says of the text Dump returns for the tree data under Auto.
AutoText(text, data) ==
    /\ ~Contains(text, "@mapStyle")
    /\ \A k \in {j \in DOMAIN data : IsMap(data[j])} :
           IF BlockByRule(data[k].map)
           THEN /\ ("map " \o k \o " = {") \in LinesOf(text)
                /\ \A leaf \in FlatLeaves(data[k].map, k) : LeafLine(leaf) \notin LinesOf(text)
           ELSE /\ ("map " \o k \o " = {") \notin LinesOf(text)
                /\ \A leaf \in FlatLeaves(data[k].map, k) : LeafLine(leaf) \in LinesOf(text)

\* C25: under the effective style Auto, Dump writes no header, writes a Map as
\* a map block exactly when it has more than 3 keys or holds a nested Map or
\* List, and writes every other Map as the dotted declarations of its values.
C25_AutoDump ==
    (last.op = "Dump" /\ getEffectiveMapStyle(c, globalMapStyle) = "Auto") =>
        AutoText(out, c.data)

\* An Auto dump of a map of four scalars, written as a block.
C25_Witness ==
    /\ last.op = "Dump"
    /\ getEffectiveMapStyle(c, globalMapStyle) = "Auto"
    /\ "db" \in DOMAIN c.data
    /\ IsMap(c.data.db)
    /\ Cardinality(DOMAIN c.data.db.map) = 4
    /\ ~hasNestedStructures(c.data.db.map)
    /\ "map db = {" \in LinesOf(out)

\* The brackets of s left open: those opened less those closed, the ones
\* inside quoted strings not counted.
OpenBrackets(s) ==
    Cardinality({i \in 1..Len(s) : /\ Ch(s, i) \in {"{", "["}
                                   /\ Cardinality({j \in 1..(i - 1) : Ch(s, j) = "\""}) % 2 = 0})
    - Cardinality({i \in 1..Len(s) : /\ Ch(s, i) \in {"}", "]"}
                                     /\ Cardinality({j \in 1..(i - 1) : Ch(s, j) = "\""}) % 2 = 0})

\* C26: the assembler ends a statement collected over several lines only when
\* no bracket outside quoted strings is left open and the collected text ends
\* with ";"; and a statement still open at the end of the input is a Syntax
\* error at the statement's first line.
C26_AssemblerEnds ==
    /\ last.ended =>
           (OpenBrackets(last.statement) = 0 /\ HasSuffix(TrimSpace(last.statement), ";"))
    /\ (last.op = "Return" /\ last.isInMultiLine) =>
           err = DMLError("Syntax", last.multiLineStart, 1)

\* Position i of s lies outside every quoted string and every bracket pair.
TopLevelAt(s, i) ==
    /\ Cardinality({j \in 1..(i - 1) : Ch(s, j) = "\""}) % 2 = 0
    /\ OpenBrackets(SubSeq(s, 1, i - 1)) = 0

\* The items of a list literal: one more than the commas at the top level of
\* its interior, none when the interior is blank.
TopLevelItems(literal) ==
    IF TrimSpace(SubSeq(literal, 2, Len(literal) - 1)) = "" THEN 0
    ELSE 1 + Cardinality({i \in 1..(Len(literal) - 2) :
                            /\ Ch(SubSeq(literal, 2, Len(literal) - 1), i) = ","
                            /\ TopLevelAt(SubSeq(literal, 2, Len(literal) - 1), i)})

\* C27: a list literal parses to a List with one element for each item between
\* top-level commas, a comma inside a quoted element or inside nested brackets
\* starting no element, and an empty interior giving the empty List.
C27_ListSplit ==
    (/\ last.op = "ParseDeclaration"
     /\ last.in.type = "list"
     /\ last.in.name \in ValidNames) =>
        /\ err = NoErr
        /\ Kind(Get(c.data, last.in.name).val) = "list"
        /\ Len(Get(c.data, last.in.name).val.list) = TopLevelItems(last.in.literal)

\* C28: a map literal with an entry that has no ":" between key and value makes
\* Parse return an error of kind Syntax.
C28_MalformedEntry ==
    last.op = "ParseMalformedMap" => err.type = "Syntax"

\* The goroutines' calls of Cache have all returned.
AllReturned == \A g \in Goroutines : gs[g].op = "Cache" /\ gs[g].pc = "returned"

\* C29: when several goroutines call Cache(f) concurrently and f has no entry,
\* the tree is stored once, and after all the calls have returned each returned
\* map is the one the cache holds for f.
C29_CacheOnce ==
    AllReturned =>
        /\ nOps = 1
        /\ configCache.present
        /\ \A g \in Goroutines : gs[g].fresh.c.data = configCache.data

\* C30: a reload that fails changes nothing: when Reload, the package function
\* ReloadKeys or Config.ReloadKeys returns an error, the cache entry of the file
\* and the Config's tree are what they were before the call.
C30_FailedReloadFrame ==
    (last.op \in {"Reload", "ReloadKeys", "Config.ReloadKeys"} /\ err # NoErr) =>
        /\ configCache = last.cache
        /\ c.data = last.c

\* A Reload has failed while the cache held an entry and the Config a tree.
C30_Witness ==
    /\ last.op = "Reload"
    /\ err # NoErr
    /\ last.cache.present
    /\ last.c # EmptyMap

=============================================================================
